---- MODULE Spec2Model ----
(***************************************************************************)
(* map_story: the markdown extractor (src/src/utils/markdownParser.js),    *)
(* the geocoding resolver (geocodeCity, src/unnamed/part_000) and the      *)
(* pipeline orchestrator (handleGenerate, src/src/components/StoryMap.jsx).*)
(*                                                                         *)
(* A JavaScript string is a sequence of UTF-16 code units, so a string is  *)
(* modelled as a sequence of naturals; an emoji is a surrogate pair.       *)
(* A value that may be null is a sequence of length 0 (null) or 1.         *)
(***************************************************************************)
EXTENDS Integers, Sequences, FiniteSets, TLC

\* ------------------------------------------------------------------------
\* Text literals of the source, as code units.
\* ------------------------------------------------------------------------
T_Hash2        == <<35, 35>>                          \* "##"
T_Hash3        == <<35, 35, 35>>                      \* "###"
T_Stars        == <<42, 42>>                          \* "**"
T_Dashes       == <<45, 45, 45>>                      \* "---"
T_RenWuDangAn  == <<20154, 29289, 26723, 26696>>      \* "人物档案"
T_JiBenXinXi   == <<22522, 26412, 20449, 24687>>      \* "基本信息"
T_RenShengLiCheng == <<20154, 29983, 21382, 31243>>   \* "人生历程"
T_ZhongYaoDiDian  == <<37325, 35201, 22320, 28857>>   \* "重要地点"
T_ShengPingShiJianXian == <<29983, 24179, 26102, 38388, 32447>> \* "生平时间线"
T_ShengPingGaiShu == <<29983, 24179, 27010, 36848>>   \* "生平概述"
T_XingMing     == <<22995, 21517>>                    \* "姓名"
T_ShiDai       == <<26102, 20195>>                    \* "时代"
T_ChaoDai      == <<26397, 20195>>                    \* "朝代"
T_ChuSheng     == <<20986, 29983>>                    \* "出生"
T_QuShi        == <<21435, 19990>>                    \* "去世"
T_XiangNian    == <<20139, 24180>>                    \* "享年"
T_ZhuYaoShenFen == <<20027, 35201, 36523, 20221>>     \* "主要身份"
T_ChuShengDi   == <<20986, 29983, 22320>>             \* "出生地"
T_QuShiDi      == <<21435, 19990, 22320>>             \* "去世地"
T_GongYuanJiNian == <<20844, 20803, 32426, 24180>>    \* "公元纪年"
T_ShiJian      == <<26102, 38388>>                    \* "时间"
T_ShiDuan      == <<26102, 27573>>                    \* "时段"
T_ShiJi        == <<20107, 36857>>                    \* "事迹"
T_JingGuo      == <<32463, 36807>>                    \* "经过"
T_ShiJianEvt   == <<20107, 20214>>                    \* "事件"
T_YiYi         == <<24847, 20041>>                    \* "意义"
T_YingXiang    == <<24433, 21709>>                    \* "影响"
T_MingPianMingJu == <<21517, 31687, 21517, 21477>>    \* "名篇名句"
T_DaiBiaoMingJu  == <<20195, 34920, 21517, 21477>>    \* "代表名句"
T_MingJu       == <<21517, 21477>>                    \* "名句"
T_WeiZhi       == <<20301, 32622>>                    \* "位置"
T_DiDian       == <<22320, 28857>>                    \* "地点"
T_NianFen      == <<24180, 20221>>                    \* "年份"
T_Jin          == <<20170>>                           \* "今"
T_GeocodePrefix == <<103, 101, 111, 99, 111, 100, 101, 95>> \* "geocode_"

\* Code-unit classes of the regular expressions.
WhiteSpace == {9, 10, 11, 12, 13, 32, 160, 5760, 8232, 8233, 8239, 8287,
               12288, 65279} \cup (8192..8202)
LineTerminator == {10, 13, 8232, 8233}
Colons     == {65306, 58}                \* [：:]
Semicolons == {65307, 59}                \* [；;]
OpenParens == {65288, 40}                \* [（(]
CloseParens == {65289, 41}               \* [）)]
\* [🟢🔴📍] without the u flag is a class of code units, not of code points.
HeaderEmojiUnits == {55357, 57314, 56628, 56525}

IsWS(c) == c \in WhiteSpace
IsLT(c) == c \in LineTerminator

\* ------------------------------------------------------------------------
\* String methods.
\* ------------------------------------------------------------------------
Drop(s, n) == SubSeq(s, n + 1, Len(s))
Take(s, n) == SubSeq(s, 1, n)

\* t occurs in s at position p (1-based)
OccursAt(s, t, p) ==
    /\ p >= 1
    /\ p + Len(t) - 1 <= Len(s)
    /\ \A i \in 1..Len(t) : s[p + i - 1] = t[i]

StartsWith(s, t) == OccursAt(s, t, 1)
Includes(s, t) == \E p \in 1..(Len(s) + 1) : OccursAt(s, t, p)

\* number of leading code units of s that are in class C
LeadRun(s, C) ==
    CHOOSE n \in 0..Len(s) :
        /\ \A i \in 1..n : s[i] \in C
        /\ (n = Len(s) \/ s[n + 1] \notin C)

\* number of trailing code units of s that are in class C
TailRun(s, C) ==
    CHOOSE n \in 0..Len(s) :
        /\ \A i \in (Len(s) - n + 1)..Len(s) : s[i] \in C
        /\ (n = Len(s) \/ s[Len(s) - n] \notin C)

Trim(s) ==
    LET a == LeadRun(s, WhiteSpace)
        r == Drop(s, a)
    IN  Take(r, Len(r) - TailRun(r, WhiteSpace))

\* s.split(c) for a one-unit separator taken from the class C
RECURSIVE SplitOn(_, _)
SplitOn(s, C) ==
    IF \E i \in 1..Len(s) : s[i] \in C
    THEN LET p == CHOOSE i \in 1..Len(s) :
                     s[i] \in C /\ \A j \in 1..(i - 1) : s[j] \notin C
         IN  <<Take(s, p - 1)>> \o SplitOn(Drop(s, p), C)
    ELSE <<s>>

\* a.join(sep)
RECURSIVE Join(_, _)
Join(a, sep) ==
    IF Len(a) = 0 THEN <<>>
    ELSE IF Len(a) = 1 THEN a[1]
    ELSE a[1] \o sep \o Join(Tail(a), sep)

\* the longest prefix of s made of units matched by "." (no line terminator)
DotRun(s) ==
    Take(s, CHOOSE n \in 0..Len(s) :
                /\ \A i \in 1..n : ~IsLT(s[i])
                /\ (n = Len(s) \/ IsLT(s[n + 1])))

\* "\s*(.+)" applied to the rest r of a line: the capture, or <<>> for no match.
\* \s* is greedy and gives units back until (.+) finds one unit to take.
WsThenCapture(r) ==
    LET ok == {b \in 0..LeadRun(r, WhiteSpace) :
                  b + 1 <= Len(r) /\ ~IsLT(r[b + 1])}
    IN  IF ok = {} THEN <<>>
        ELSE LET b == CHOOSE x \in ok : \A y \in ok : y <= x
             IN  <<DotRun(Drop(r, b))>>

\* ------------------------------------------------------------------------
\* markdownParser.js
\* ------------------------------------------------------------------------

\* extractField(line, keyPattern): keys is the alternation of keyPattern.
\* The regular expression is ^-\s*\*\*(keys)\*\*：\s*(.+) ; the result is
\* <<value>> or <<>> (null).
extractField(line, keys) ==
    IF ~StartsWith(line, <<45>>) THEN <<>>
    ELSE LET r1 == Drop(line, 1)
             r2 == Drop(r1, LeadRun(r1, WhiteSpace))
             hit == {k \in keys : StartsWith(r2, T_Stars \o k \o T_Stars \o <<65306>>)}
         IN  IF hit = {} THEN <<>>
             ELSE LET k == CHOOSE x \in hit : TRUE
                      m == WsThenCapture(Drop(r2, Len(k) + 5))
                  IN  IF m = <<>> THEN <<>> ELSE <<Trim(m[1])>>

\* a value is truthy when it is neither null nor the empty string
Truthy(opt) == opt # <<>> /\ opt[1] # <<>>

\* line.match(/^##\s+/)
IsH2(line) == StartsWith(line, T_Hash2) /\ Len(line) >= 3 /\ IsWS(line[3])

\* line.match(headerPattern) for an alternation of literals
MatchesAny(line, pats) == \E t \in pats : Includes(line, t)

\* The loop of extractSection over lines[i..]: the lines pushed to content.
RECURSIVE SectionLoop(_, _, _, _)
SectionLoop(lines, i, inSection, pats) ==
    IF i > Len(lines) THEN <<>>
    ELSE LET line == lines[i] IN
         IF IsH2(line) /\ MatchesAny(line, pats)
         THEN SectionLoop(lines, i + 1, TRUE, pats)          \* continue
         ELSE IF IsH2(line) /\ inSection
         THEN <<>>                                           \* break
         ELSE IF inSection
         THEN <<line>> \o SectionLoop(lines, i + 1, inSection, pats)
         ELSE SectionLoop(lines, i + 1, inSection, pats)

\* an extraction that leaves the section at a "##" header of another section
\* and enters it again at a later header that matches
RECURSIVE SectionLoop_Reenters(_, _, _, _)
SectionLoop_Reenters(lines, i, inSection, pats) ==
    IF i > Len(lines) THEN <<>>
    ELSE LET line == lines[i] IN
         IF IsH2(line) /\ MatchesAny(line, pats)
         THEN SectionLoop_Reenters(lines, i + 1, TRUE, pats)
         ELSE IF IsH2(line)
         THEN SectionLoop_Reenters(lines, i + 1, FALSE, pats)
         ELSE IF inSection
         THEN <<line>> \o SectionLoop_Reenters(lines, i + 1, inSection, pats)
         ELSE SectionLoop_Reenters(lines, i + 1, inSection, pats)

extractSection_Reenters(text, pats) ==
    Join(SectionLoop_Reenters(SplitOn(text, {10}), 1, FALSE, pats), <<10>>)

\* an extraction that takes the text before the first header as inside
extractSection_StartsInside(text, pats) ==
    Join(SectionLoop(SplitOn(text, {10}), 1, TRUE, pats), <<10>>)

extractSection(text, pats) ==
    Join(SectionLoop(SplitOn(text, {10}), 1, FALSE, pats), <<10>>)

ProfilePattern  == {T_RenWuDangAn, T_JiBenXinXi}
LocationPattern == {T_RenShengLiCheng, T_ZhongYaoDiDian}
TimelinePattern == {T_ShengPingShiJianXian}

\* ---- 1. person profile -------------------------------------------------
SetField(p, k, v) == [x \in DOMAIN p \cup {k} |-> IF x = k THEN v ELSE p[x]]
NoFields == [x \in {} |-> <<>>]

ProfileFields ==
    << <<"name",  T_XingMing,     {T_XingMing}>>,
       <<"era",   T_ShiDai,       {T_ShiDai, T_ChaoDai}>>,
       <<"birth", T_ChuSheng,     {T_ChuSheng}>>,
       <<"death", T_QuShi,        {T_QuShi}>>,
       <<"age",   T_XiangNian,    {T_XiangNian}>>,
       <<"roles", T_ZhuYaoShenFen, {T_ZhuYaoShenFen}>> >>

\* the six "if (line.includes(...)) result.person.x = extractField(...)"
RECURSIVE ProfileAssign(_, _, _)
ProfileAssign(person, line, n) ==
    IF n > Len(ProfileFields) THEN person
    ELSE LET f == ProfileFields[n]
             p2 == IF Includes(line, T_Stars \o f[2] \o T_Stars)
                   THEN SetField(person, f[1], extractField(line, f[3]))
                   ELSE person
         IN  ProfileAssign(p2, line, n + 1)

\* line.match(/^###\s+生平概述/)
IsOverviewHeading(line) ==
    /\ StartsWith(line, T_Hash3)
    /\ LET r == Drop(line, 3)
           a == LeadRun(r, WhiteSpace)
       IN  a >= 1 /\ StartsWith(Drop(r, a), T_ShengPingGaiShu)

\* one iteration of the profile loop; st = [person, intro, currentKey]
ProfileStep(st, line) ==
    LET p2 == ProfileAssign(st.person, line, 1) IN
    IF IsOverviewHeading(line)
    THEN [person |-> p2, intro |-> st.intro, currentKey |-> "overview"]
    ELSE IF st.currentKey = "overview" /\ Trim(line) # <<>> /\ ~StartsWith(line, <<35>>)
    THEN [person |-> p2, intro |-> st.intro \o Trim(line) \o <<32>>,
          currentKey |-> st.currentKey]
    ELSE [person |-> p2, intro |-> st.intro, currentKey |-> st.currentKey]

RECURSIVE ProfileLoop(_, _, _)
ProfileLoop(st, lines, i) ==
    IF i > Len(lines) THEN st
    ELSE ProfileLoop(ProfileStep(st, lines[i]), lines, i + 1)

parseProfile(markdown) ==
    LET sec == extractSection(markdown, ProfilePattern)
        st0 == [person |-> NoFields, intro |-> <<>>, currentKey |-> ""]
    IN  IF sec = <<>> THEN st0 ELSE ProfileLoop(st0, SplitOn(sec, {10}), 1)
\* ---- 2. locations ------------------------------------------------------

\* line.match(/^###\s+[🟢🔴📍]?\s*(.+)/): <<capture>> or <<>>.  A candidate
\* is <<a, e, b>>: \s+ takes a units, the optional class e (0 or 1) units,
\* \s* takes b units, and (.+) starts right after.  The regular expression
\* engine tries the longest a first, then e = 1 before e = 0, then the
\* longest b.
HeaderCandidates(r) ==
    UNION {{<<a, e, b>> : b \in {x \in 0..LeadRun(Drop(r, a + e), WhiteSpace) :
                                   /\ a + e + x + 1 <= Len(r)
                                   /\ ~IsLT(r[a + e + x + 1])}} :
           <<a, e>> \in {w \in (1..LeadRun(r, WhiteSpace)) \X {0, 1} :
                             w[2] = 1 => /\ w[1] + 1 <= Len(r)
                                         /\ r[w[1] + 1] \in HeaderEmojiUnits}}

headerMatch(line) ==
    IF ~StartsWith(line, T_Hash3) THEN <<>>
    ELSE LET r == Drop(line, 3)
             V == HeaderCandidates(r)
         IN  IF V = {} THEN <<>>
             ELSE LET v == CHOOSE x \in V : \A y \in V :
                               \/ y[1] < x[1]
                               \/ (y[1] = x[1] /\ y[2] < x[2])
                               \/ (y[1] = x[1] /\ y[2] = x[2] /\ y[3] <= x[3])
                  IN  <<DotRun(Drop(r, v[1] + v[2] + v[3]))>>

\* name.replace(/marker[：:]\s*/, "")
ReplaceMarker(name, marker) ==
    LET at == {p \in 1..Len(name) :
                  /\ OccursAt(name, marker, p)
                  /\ p + Len(marker) <= Len(name)
                  /\ name[p + Len(marker)] \in Colons}
    IN  IF at = {} THEN name
        ELSE LET p == CHOOSE x \in at : \A y \in at : x <= y
                 rest == Drop(name, p + Len(marker))
             IN  Take(name, p - 1) \o Drop(rest, LeadRun(rest, WhiteSpace))

\* name.replace(/^[\u{1F300}-\u{1F9FF}]/u, ""): with the u flag the class is
\* matched against a code point, that is a whole surrogate pair.
CodePoint(hi, lo) == 65536 + (hi - 55296) * 1024 + (lo - 56320)

RemoveLeadingEmoji(name) ==
    IF /\ Len(name) >= 2
       /\ name[1] \in 55296..56319
       /\ name[2] \in 56320..57343
       /\ CodePoint(name[1], name[2]) \in 127744..129535
    THEN Drop(name, 2)
    ELSE name

\* the record a header line opens (lines 77-100)
NewLocation(captured) ==
    LET name0 == Trim(captured)
        type  == IF Includes(name0, T_ChuShengDi) THEN "birth"
                 ELSE IF Includes(name0, T_QuShiDi) THEN "death"
                 ELSE "normal"
        name1 == IF Includes(name0, T_ChuShengDi) THEN ReplaceMarker(name0, T_ChuShengDi)
                 ELSE IF Includes(name0, T_QuShiDi) THEN ReplaceMarker(name0, T_QuShiDi)
                 ELSE IF Includes(name0, T_ZhongYaoDiDian)
                      THEN ReplaceMarker(name0, T_ZhongYaoDiDian)
                 ELSE name0
    IN  [name |-> Trim(RemoveLeadingEmoji(name1)), type |-> type, time |-> <<>>,
         desc |-> <<>>, significance |-> <<>>, quotes |-> <<>>,
         locationDesc |-> <<>>]

\* quotes.split(/[；;]/).map(s => s.trim()).filter(Boolean)
RECURSIVE TrimNonEmpty(_)
TrimNonEmpty(parts) ==
    IF parts = <<>> THEN <<>>
    ELSE (IF Trim(Head(parts)) = <<>> THEN <<>> ELSE <<Trim(Head(parts))>>)
         \o TrimNonEmpty(Tail(parts))

\* a split that also cuts at commas
SplitQuotes_AlsoCommas(q) == TrimNonEmpty(SplitOn(q, Semicolons \cup {65292, 44}))

SplitQuotes(q) == TrimNonEmpty(SplitOn(q, Semicolons))

\* the field tests on a line inside an open record (lines 105-119)
ApplyFields(loc, line) ==
    LET time   == extractField(line, {T_GongYuanJiNian, T_ShiJian, T_ShiDuan})
        event  == extractField(line, {T_ShiJi, T_JingGuo, T_ShiJianEvt})
        signif == extractField(line, {T_YiYi, T_YingXiang})
        quotes == extractField(line, {T_MingPianMingJu, T_DaiBiaoMingJu, T_MingJu})
        locDesc == extractField(line, {T_WeiZhi, T_DiDian})
    IN  [name |-> loc.name,
         type |-> loc.type,
         time |-> IF Truthy(time) THEN time[1] ELSE loc.time,
         desc |-> IF Truthy(event) THEN event[1] ELSE loc.desc,
         significance |-> IF Truthy(signif) THEN signif[1] ELSE loc.significance,
         quotes |-> IF Truthy(quotes) THEN SplitQuotes(quotes[1]) ELSE loc.quotes,
         locationDesc |-> IF Truthy(locDesc) THEN locDesc ELSE loc.locationDesc]

\* a loop body that applies a field line to the pushed records too
LocStep_FieldsToAll(st, line) ==
    LET hm == headerMatch(line) IN
    IF hm # <<>>
    THEN [cur |-> <<NewLocation(hm[1])>>, out |-> st.out \o st.cur]
    ELSE [cur |-> [k \in 1..Len(st.cur) |-> ApplyFields(st.cur[k], line)],
          out |-> [k \in 1..Len(st.out) |-> ApplyFields(st.out[k], line)]]

\* one iteration of the location loop; st = [cur, out], cur is
\* currentLocation (<<>> for null, <<record>> otherwise), out is
\* result.locations
LocStep(st, line) ==
    LET hm == headerMatch(line) IN
    IF hm # <<>>
    THEN [cur |-> <<NewLocation(hm[1])>>, out |-> st.out \o st.cur]
    ELSE IF st.cur # <<>>
    THEN [cur |-> <<ApplyFields(st.cur[1], line)>>, out |-> st.out]
    ELSE st

\* an end of loop that forgets the open record
LocFlush_DropsOpen(st) == st.out

\* "Push the last one" (line 123)
LocFlush(st) == st.out \o st.cur

RECURSIVE LocLoop(_, _, _)
LocLoop(st, lines, i) ==
    IF i > Len(lines) THEN st ELSE LocLoop(LocStep(st, lines[i]), lines, i + 1)

NoLocState == [cur |-> <<>>, out |-> <<>>]

parseLocations(markdown) ==
    LET sec == extractSection(markdown, LocationPattern)
    IN  IF sec = <<>> THEN <<>>
        ELSE LocFlush(LocLoop(NoLocState, SplitOn(sec, {10}), 1))

\* ---- 3. timeline -------------------------------------------------------
IsTableRow(line) == StartsWith(Trim(line), <<124>>)

\* one iteration of the timeline loop; st = [tableStarted, out]
TimelineStep(st, line) ==
    IF IsTableRow(line) /\ Includes(line, T_NianFen)
    THEN [tableStarted |-> TRUE, out |-> st.out]
    ELSE IF st.tableStarted /\ IsTableRow(line) /\ ~Includes(line, T_Dashes)
    THEN LET parts == TrimNonEmpty(SplitOn(line, {124}))
         IN  IF Len(parts) >= 3
             THEN [tableStarted |-> TRUE,
                   out |-> Append(st.out, [year |-> parts[1], age |-> parts[2],
                                           event |-> parts[3]])]
             ELSE st
    ELSE st

RECURSIVE TimelineLoop(_, _, _)
TimelineLoop(st, lines, i) ==
    IF i > Len(lines) THEN st
    ELSE TimelineLoop(TimelineStep(st, lines[i]), lines, i + 1)

parseTimeline(markdown) ==
    LET sec == extractSection(markdown, TimelinePattern)
    IN  IF sec = <<>> THEN <<>>
        ELSE TimelineLoop([tableStarted |-> FALSE, out |-> <<>>],
                          SplitOn(sec, {10}), 1).out

EmptyResult == [person |-> NoFields, locations |-> <<>>, timeline |-> <<>>,
                intro |-> <<>>]

parseMarkdown(markdown) ==
    IF markdown = <<>> THEN EmptyResult
    ELSE [person    |-> parseProfile(markdown).person,
          locations |-> parseLocations(markdown),
          timeline  |-> parseTimeline(markdown),
          intro     |-> parseProfile(markdown).intro]
\* ------------------------------------------------------------------------
\* Location name normalizer (handleGenerate, lines 188-197)
\* ------------------------------------------------------------------------

\* geoName.match(/今([^）)]+)/): <<capture>> or <<>>
ModernNameMatch(s) ==
    LET at == {p \in 1..Len(s) :
                  s[p] = T_Jin[1] /\ p + 1 <= Len(s) /\ s[p + 1] \notin CloseParens}
    IN  IF at = {} THEN <<>>
        ELSE LET p == CHOOSE x \in at : \A y \in at : x <= y
                 rest == Drop(s, p)
             IN  <<Take(rest, CHOOSE n \in 0..Len(rest) :
                                 /\ \A i \in 1..n : rest[i] \notin CloseParens
                                 /\ (n = Len(rest) \/ rest[n + 1] \in CloseParens))>>

\* geoName.replace(/[（(].*?[）)]/g, "")
\* the first close parenthesis after position p that "[（(].*?" reaches from
\* an open parenthesis at p, or 0
CloseFor(s, p) ==
    LET qs == {q \in (p + 1)..Len(s) : s[q] \in CloseParens}
    IN  IF s[p] \notin OpenParens \/ qs = {} THEN 0
        ELSE LET q == CHOOSE x \in qs : \A y \in qs : x <= y
             IN  IF \A j \in (p + 1)..(q - 1) : ~IsLT(s[j]) THEN q ELSE 0

RECURSIVE StripParens(_)
StripParens(s) ==
    LET starts == {p \in 1..Len(s) : CloseFor(s, p) # 0}
    IN  IF starts = {} THEN s
        ELSE LET p == CHOOSE x \in starts : \A y \in starts : x <= y
             IN  Take(s, p - 1) \o StripParens(Drop(s, CloseFor(s, p)))

\* loc.locationDesc || loc.name
\* a base string that ignores locationDesc
queryNameOf_NameOnly(loc) == loc.name

queryNameOf(loc) == IF Truthy(loc.locationDesc) THEN loc.locationDesc[1] ELSE loc.name

\* a normalizer without the fallback of line 197
geoNameOf_NoFallback(loc) ==
    LET queryName == queryNameOf(loc)
        m == ModernNameMatch(queryName)
        g1 == IF Includes(queryName, T_Jin) /\ m # <<>> THEN m[1] ELSE queryName
    IN  Trim(StripParens(g1))

geoNameOf(loc) ==
    LET queryName == queryNameOf(loc)
        m == ModernNameMatch(queryName)
        g1 == IF Includes(queryName, T_Jin) /\ m # <<>> THEN m[1] ELSE queryName
        g2 == Trim(StripParens(g1))
    IN  IF g2 = <<>> THEN loc.name ELSE g2

\* ------------------------------------------------------------------------
\* geocodeCity (src/unnamed/part_000)
\* ------------------------------------------------------------------------
\* A number is <<"num", n>>, NaN is <<"nan">>, a JSON null is <<"null">>.
\* Latitudes and longitudes of the model are whole degrees.
T_Null   == <<110, 117, 108, 108>>                    \* null
T_LatKey == <<123, 34, 108, 97, 116, 34, 58>>         \* {"lat":
T_LngKey == <<44, 34, 108, 110, 103, 34, 58>>         \* ,"lng":
DigitUnits == 48..57

RECURSIVE Digits(_)
Digits(n) == IF n < 10 THEN <<48 + n>> ELSE Digits(n \div 10) \o <<48 + (n % 10)>>

RECURSIVE DigitsValue(_)
DigitsValue(d) ==
    IF d = <<>> THEN 0 ELSE 10 * DigitsValue(Take(d, Len(d) - 1)) + (d[Len(d)] - 48)

\* parseFloat(s) for s with no fraction and no exponent
ParseFloat(s) ==
    LET t == Drop(s, LeadRun(s, WhiteSpace))
        neg == t # <<>> /\ t[1] = 45
        u == IF t # <<>> /\ t[1] \in {43, 45} THEN Tail(t) ELSE t
        k == LeadRun(u, DigitUnits)
    IN  IF k = 0 THEN <<"nan">>
        ELSE <<"num", IF neg THEN 0 - DigitsValue(Take(u, k)) ELSE DigitsValue(Take(u, k))>>

\* the text JSON.stringify writes for a number: NaN is written as null
NumberText(v) ==
    IF v[1] = "num"
    THEN (IF v[2] < 0 THEN <<45>> \o Digits(0 - v[2]) ELSE Digits(v[2]))
    ELSE T_Null

\* JSON.stringify({lat, lng})
JSONStringify(c) ==
    T_LatKey \o NumberText(c.lat) \o T_LngKey \o NumberText(c.lng) \o <<125>>

\* a JSON number or null: the value, or <<>> when the text is neither
JSONNumber(x) ==
    LET u == IF x # <<>> /\ x[1] = 45 THEN Tail(x) ELSE x
    IN  IF x = T_Null THEN <<"null">>
        ELSE IF u # <<>> /\ LeadRun(u, DigitUnits) = Len(u)
        THEN <<"num", IF x[1] = 45 THEN 0 - DigitsValue(u) ELSE DigitsValue(u)>>
        ELSE <<>>

\* JSON.parse(text) on the texts of StoredTexts: the text null, a {"lat":..,
\* "lng":..} object, or a text that is no JSON (JSON.parse throws).
\* [ok |-> FALSE] is the thrown SyntaxError; value is <<>> for null.
JSONParse(text) ==
    IF text = T_Null THEN [ok |-> TRUE, value |-> <<>>]
    ELSE LET cuts == {p \in 1..Len(text) :
                         /\ StartsWith(text, T_LatKey)
                         /\ OccursAt(text, T_LngKey, p)
                         /\ text[Len(text)] = 125
                         /\ JSONNumber(SubSeq(text, Len(T_LatKey) + 1, p - 1)) # <<>>
                         /\ JSONNumber(SubSeq(text, p + Len(T_LngKey), Len(text) - 1)) # <<>>}
         IN  IF cuts = {} THEN [ok |-> FALSE, value |-> <<>>]
             ELSE LET p == CHOOSE x \in cuts : TRUE
                  IN  [ok |-> TRUE,
                       value |-> <<[lat |-> JSONNumber(SubSeq(text, Len(T_LatKey) + 1, p - 1)),
                                    lng |-> JSONNumber(SubSeq(text, p + Len(T_LngKey),
                                                              Len(text) - 1))]>>]

\* `geocode_${name}`
cacheKey(name) == T_GeocodePrefix \o name

\* localStorage.getItem(key): <<string>> or <<>> (null)
getItem(store, key) == IF key \in DOMAIN store THEN <<store[key]>> ELSE <<>>
removeItem(store, key) == [k \in DOMAIN store \ {key} |-> store[k]]

\* ------------------------------------------------------------------------
\* State
\* ------------------------------------------------------------------------
VARIABLES
    GEOCODE_CACHE,  \* the Map of part_000 line 1: query -> <<coordinate>> or <<>> (null)
    localStorage,   \* the durable store: key -> stored text
    gc,             \* the geocodeCity call in flight, or the one that last returned
    gc2,            \* a geocodeCity call of another caller, overlapping with gc
    timerLeft,      \* milliseconds left on the setTimeout of line 44
    isLoading,      \* React state of line 134
    messages,       \* React state: the chat messages appended so far
    hpc,            \* where handleGenerate is suspended ("idle": no run in flight)
    run,            \* the locals of the handleGenerate run in flight
    answered,       \* history: query -> the first coordinate a call returned for it
    pInput,         \* the markdown text given to parseMarkdown
    ppc,            \* where parseMarkdown stands
    pLines,         \* the lines of the location section
    pIdx,           \* index of the next line of the location loop
    pSt,            \* currentLocation and result.locations of the location loop
    pResult,        \* the result object of parseMarkdown
    timerRef,       \* timerRef.current of the polling App: 0 (null) or an interval id
    intervals,      \* the intervals set and not cleared; the interval of task t has id t
    calls,          \* the polling callbacks suspended at an await
    tasks,          \* the server: the status of each task
    locals,         \* per pollTask call: progressIndex, lastStatus, shownQueued, shownRunning
    chat,           \* the messages state of the polling App
    detailLines,    \* React state of line 400
    asked,          \* the openMap calls made so far
    pending,        \* the openMap calls suspended at an await
    fired           \* per interval: how often it has fired

geoVars   == <<GEOCODE_CACHE, localStorage, gc, gc2, timerLeft, answered>>
runVars   == <<isLoading, messages, hpc, run>>
parseVars == <<pInput, ppc, pLines, pIdx, pSt, pResult>>
pollVars  == <<timerRef, intervals, calls, tasks, locals, chat, detailLines, asked,
               pending, fired>>
vars == <<GEOCODE_CACHE, localStorage, gc, gc2, timerLeft, isLoading, messages, hpc,
          run, answered, pInput, ppc, pLines, pIdx, pSt, pResult,
          timerRef, intervals, calls, tasks, locals, chat, detailLines, asked,
          pending, fired>>

\* ------------------------------------------------------------------------
\* Bounds and sample inputs
\* ------------------------------------------------------------------------
MaxRuns   == 2      \* handleGenerate runs per behaviour
MaxStored == 1      \* entries the durable store holds when the page loads
MaxLines  == 4      \* lines of a markdown text whose location section is scanned
MaxDocLines == 3    \* lines of a markdown text given to parseMarkdown as a whole
MaxPieces == 2      \* pieces of the value of a quotes field
TickMs    == 500    \* granularity of the passage of time

COOLDOWN_MS == 1000

Min(a, b) == IF a < b THEN a ELSE b
Max(a, b) == IF a > b THEN a ELSE b

S_ChangAn == <<38271, 23433>>       \* "长安"
S_LuoYang == <<27931, 38451>>       \* "洛阳"
S_NanJing == <<21335, 20140>>       \* "南京"
S_JinLing == <<37329, 38517>>       \* "金陵"
S_LiBai   == <<26446, 30333>>       \* "李白"

L_H2Loc     == <<35, 35, 32>> \o T_RenShengLiCheng                \* "## 人生历程"
L_H2Profile == <<35, 35, 32>> \o T_RenWuDangAn                    \* "## 人物档案"
L_H2Time    == <<35, 35, 32>> \o T_ShengPingShiJianXian           \* "## 生平时间线"
L_H2Other   == <<35, 35, 32, 120>>                                \* "## x"
L_H3ChangAn == <<35, 35, 35, 32>> \o S_ChangAn                    \* "### 长安"
L_H3LuoYang == <<35, 35, 35, 32>> \o S_LuoYang                    \* "### 洛阳"
\* "### 🟢 出生地：洛阳"
L_H3Birth   == <<35, 35, 35, 32, 55357, 57314, 32>> \o T_ChuShengDi \o <<65306>> \o S_LuoYang
\* "- **位置**：金陵（今南京）"
L_LocDesc   == <<45, 32>> \o T_Stars \o T_WeiZhi \o T_Stars \o <<65306>>
               \o S_JinLing \o <<65288>> \o T_Jin \o S_NanJing \o <<65289>>
\* "- **位置**：长安"
L_LocDescChangAn == <<45, 32>> \o T_Stars \o T_WeiZhi \o T_Stars \o <<65306>> \o S_ChangAn
\* "- **姓名**：李白"
L_Name      == <<45, 32>> \o T_Stars \o T_XingMing \o T_Stars \o <<65306>> \o S_LiBai
\* "| 年份 | 1 | x |"
L_Row       == <<124, 32>> \o T_NianFen \o <<32, 124, 32, 49, 32, 124, 32, 120, 32, 124>>
\* "| 7 | 1 | x |"
L_Row2      == <<124, 32, 55, 32, 124, 32, 49, 32, 124, 32, 120, 32, 124>>

\* the lines of the texts whose location section is scanned (SpecParse)
ScanLines == {L_H2Loc, L_H2Other, L_H3ChangAn, L_H3Birth, L_LocDesc, L_Name, <<>>}

\* the lines of the texts parsed as a whole (SpecDoc)
DocLines == {L_H2Loc, L_H2Profile, L_H2Time, L_H2Other, L_H3ChangAn, L_H3Birth,
             L_LocDesc, L_Name, L_Row, L_Row2, <<>>}

RECURSIVE SeqsUpTo(_, _)
SeqsUpTo(S, n) ==
    IF n = 0 THEN {<<>>}
    ELSE LET shorter == SeqsUpTo(S, n - 1)
         IN  shorter \cup {Append(q, x) : q \in {r \in shorter : Len(r) = n - 1}, x \in S}

ParseInputs == {Join(ls, <<10>>) : ls \in SeqsUpTo(ScanLines, MaxLines)}
DocInputs   == {Join(ls, <<10>>) : ls \in SeqsUpTo(DocLines, MaxDocLines)}

\* the header texts and field lines of the one-record texts (SpecRecord)
E_Green == <<55357, 57314>>        \* U+1F7E2, green circle
E_Red   == <<55357, 56628>>        \* U+1F534, red circle
E_Pin   == <<55357, 56525>>        \* U+1F4CD, pin
E_House == <<55356, 57312>>        \* U+1F3E0, house
Emojis  == {E_Green, E_Red, E_Pin, E_House}

HeaderPrefixes == {<<>>} \cup Emojis \cup {e \o <<32>> : e \in {E_Green, E_House}}

HeaderMarkers ==
    {<<>>, T_ChuShengDi, T_QuShiDi, T_ZhongYaoDiDian}
    \cup {m \o <<65306>> : m \in {T_ChuShengDi, T_QuShiDi, T_ZhongYaoDiDian}}
    \cup {T_ChuShengDi \o <<58, 32>>, T_ChuShengDi \o <<65306>> \o T_QuShiDi \o <<65306>>}

HeaderNames == {<<>>, S_ChangAn}

HeaderTexts == {x \o m \o n : x \in HeaderPrefixes, m \in HeaderMarkers, n \in HeaderNames}

S_JiangSu == <<27743, 33487>>      \* "江苏"
S_GuDu    == <<21476, 37117>>      \* "古都"

\* values of a "位置" field
DescValues ==
    {S_LuoYang,
     S_JinLing \o <<65288>> \o T_Jin \o S_NanJing \o <<65289>>,
     S_JinLing \o <<40>> \o T_Jin \o S_NanJing \o <<41>>,
     T_Jin \o S_NanJing,
     S_LuoYang \o <<65288>> \o S_GuDu \o <<65289>>,
     <<65288>> \o S_GuDu \o <<65289>>,
     <<65288>> \o T_Jin \o <<65289>>,
     S_JinLing \o <<65288>> \o T_Jin \o S_NanJing \o <<65288>> \o S_JiangSu
         \o <<65289, 65289>>,
     S_LuoYang \o <<65288>> \o S_GuDu}

DescLines == {<<45, 32>> \o T_Stars \o T_WeiZhi \o T_Stars \o <<65306>> \o v : v \in DescValues}

S_JingYeSi  == <<38745, 22812, 24605>>     \* "静夜思"
S_XiangSi   == <<30456, 24605>>            \* "相思"
QuotePieces == {S_JingYeSi, S_XiangSi, <<32>>, S_JingYeSi \o <<65292>> \o S_XiangSi,
                <<32>> \o S_XiangSi \o <<44, 32>>}

\* values of a "名篇名句" field: up to MaxPieces pieces, a semicolon between two
RECURSIVE QuoteValues(_)
QuoteValues(n) ==
    IF n = 1 THEN QuotePieces
    ELSE QuoteValues(n - 1)
         \cup {v \o <<c>> \o q : v \in QuoteValues(n - 1), c \in Semicolons, q \in QuotePieces}

QuoteLines == {<<45, 32>> \o T_Stars \o T_MingPianMingJu \o T_Stars \o <<65306>> \o v :
                   v \in QuoteValues(MaxPieces)}

\* "## 人生历程", "### " + header text, one field line
OneRecordText(h, f) == Join(<<L_H2Loc, T_Hash3 \o <<32>> \o h, f>>, <<10>>)

RecordInputs ==
    {OneRecordText(h, f) : h \in HeaderTexts, f \in DescLines \cup {<<>>}}
    \cup {OneRecordText(S_ChangAn, f) : f \in QuoteLines}

\* the markdown texts the generation service answers with (Spec)
Doc_Two  == Join(<<L_H2Loc, L_H3ChangAn, L_LocDesc, L_H3LuoYang>>, <<10>>)
Doc_Same == Join(<<L_H2Loc, L_H3ChangAn, L_H3LuoYang, L_LocDescChangAn>>, <<10>>)
Doc_None == Join(<<L_H2Profile, L_Name, L_H3ChangAn>>, <<10>>)
Docs == {Doc_Two, Doc_Same, Doc_None}

\* the texts typed by the user
Texts == {<<>>, <<32>>, S_LiBai}

\* what the geocoding provider answers a match with: lat and lon are strings
Match_A == [lat |-> <<51, 52>>, lon |-> <<49, 48, 56>>]      \* "34", "108"
Match_B == [lat |-> <<51, 50>>, lon |-> <<49, 49, 56>>]      \* "32", "118"
ProviderMatches == {Match_A, Match_B}

\* the queries of the sample documents
Queries == {S_ChangAn, S_LuoYang, S_NanJing}

\* texts a durable entry may hold when the page loads: the empty string, a
\* text that is no JSON, the JSON text null, a stored coordinate, and what
\* line 41 writes for a result whose numbers are NaN
T_Garbage == <<123, 108, 97, 116>>                           \* {lat
T_NullCoordinate == JSONStringify([lat |-> <<"nan">>, lng |-> <<"nan">>])
StoredTexts == {<<>>, T_Garbage, T_Null, T_NullCoordinate,
                JSONStringify([lat |-> <<"num", 34>>, lng |-> <<"num", 108>>])}

EmptyMap == [x \in {} |-> <<>>]

InitialStores ==
    {st \in UNION {[K -> StoredTexts] : K \in SUBSET {cacheKey(q) : q \in Queries}} :
        Cardinality(DOMAIN st) <= MaxStored}

\* ------------------------------------------------------------------------
\* geocodeCity, step by step.  Each await (fetch, resp.json(), the timer) ends
\* a step.  A call is the record gc:
\*   pc        "idle" | "fetching" | "json" | "sleeping" | "returned" | "threw"
\*   name      the argument
\*   ret       the returned value: <<>> (null) or <<coordinate>>
\*   how       the path taken: "noname", "memory", "durable", "lookup" (a request
\*             was issued and is not yet decided), "neterr", "notok", "badjson",
\*             "empty", "found"
\* and, as history of the call,
\*   reqs      the requests it sent to the provider
\*   known     whether an earlier call had returned a coordinate for name
\*   cache0, store0   both layers as they were when the call started
\*   sinceStore       milliseconds since lines 40-41 wrote the caches
\* ------------------------------------------------------------------------
IdleCall == [pc |-> "idle", name |-> <<>>, ret |-> <<>>, how |-> "none",
             reqs |-> 0, known |-> FALSE,
             cache0 |-> EmptyMap, store0 |-> EmptyMap, sinceStore |-> 0]

\* Variants of the entry of geocodeCity, for comparison with gcEnter below.
\* One that consults neither cache layer:
gcEnter_NoCache(cache, store, name) ==
    IF name = <<>>
    THEN [pc |-> "returned", ret |-> <<>>, how |-> "noname",
          cache |-> cache, store |-> store]
    ELSE [pc |-> "fetching", ret |-> <<>>, how |-> "lookup",
          cache |-> cache, store |-> store]

\* one whose durable hit is not copied into memory:
gcEnter_NoCopy(cache, store, name) ==
    LET stored == getItem(store, cacheKey(name))
        parsed == JSONParse(stored[1])
    IN  IF name = <<>>
        THEN [pc |-> "returned", ret |-> <<>>, how |-> "noname",
              cache |-> cache, store |-> store]
        ELSE IF name \in DOMAIN cache
        THEN [pc |-> "returned", ret |-> cache[name], how |-> "memory",
              cache |-> cache, store |-> store]
        ELSE IF Truthy(stored) /\ parsed.ok
        THEN [pc |-> "returned", ret |-> parsed.value, how |-> "durable",
              cache |-> cache, store |-> store]
        ELSE IF Truthy(stored)
        THEN [pc |-> "fetching", ret |-> <<>>, how |-> "lookup",
              cache |-> cache, store |-> removeItem(store, cacheKey(name))]
        ELSE [pc |-> "fetching", ret |-> <<>>, how |-> "lookup",
              cache |-> cache, store |-> store]

\* lines 4-19 and the request of lines 23-30: the call up to its first await
\* or its return
gcEnter(cache, store, name) ==
    LET key    == cacheKey(name)
        stored == getItem(store, key)
        parsed == JSONParse(stored[1])
    IN  IF name = <<>>
        THEN [pc |-> "returned", ret |-> <<>>, how |-> "noname",
              cache |-> cache, store |-> store]
        ELSE IF name \in DOMAIN cache
        THEN [pc |-> "returned", ret |-> cache[name], how |-> "memory",
              cache |-> cache, store |-> store]
        ELSE IF Truthy(stored) /\ parsed.ok
        THEN [pc |-> "returned", ret |-> parsed.value, how |-> "durable",
              cache |-> SetField(cache, name, parsed.value), store |-> store]
        ELSE IF Truthy(stored)
        THEN [pc |-> "fetching", ret |-> <<>>, how |-> "lookup",
              cache |-> cache, store |-> removeItem(store, key)]
        ELSE [pc |-> "fetching", ret |-> <<>>, how |-> "lookup",
              cache |-> cache, store |-> store]

\* a catch block that throws the error on
gcCatch_Rethrows(kind) == [pc |-> "threw", how |-> kind]

\* the catch block of lines 48-50, then line 51
gcCatch(kind) == [pc |-> "returned", how |-> kind]

\* line 26 resumes: the fetch rejected ("neterr"), or resolved with a status
gcOnResponse(r) ==
    IF r = "neterr" THEN gcCatch("neterr")
    ELSE IF r = "notok" THEN [pc |-> "returned", how |-> "notok"]      \* line 32
    ELSE [pc |-> "json", how |-> "lookup"]

\* line 37
resultOf(m) == [lat |-> ParseFloat(m.lat), lng |-> ParseFloat(m.lon)]

\* Variants of lines 35-44, for comparison with gcOnData below.
\* One that remembers an empty answer:
gcOnData_CachesEmpty(cache, store, name, d) ==
    IF d.parse = "error"
    THEN [pc |-> "returned", how |-> "badjson", ret |-> <<>>,
          cache |-> cache, store |-> store, timer |-> 0]
    ELSE IF Len(d.data) > 0
    THEN [pc |-> "sleeping", how |-> "found", ret |-> <<resultOf(d.data[1])>>,
          cache |-> SetField(cache, name, <<resultOf(d.data[1])>>),
          store |-> SetField(store, cacheKey(name), JSONStringify(resultOf(d.data[1]))),
          timer |-> COOLDOWN_MS]
    ELSE [pc |-> "returned", how |-> "empty", ret |-> <<>>,
          cache |-> SetField(cache, name, <<>>),
          store |-> SetField(store, cacheKey(name), T_Null), timer |-> 0]

\* one that does not wait after storing:
gcOnData_NoWait(cache, store, name, d) ==
    IF d.parse = "error"
    THEN [pc |-> "returned", how |-> "badjson", ret |-> <<>>,
          cache |-> cache, store |-> store, timer |-> 0]
    ELSE IF Len(d.data) > 0
    THEN [pc |-> "sleeping", how |-> "found", ret |-> <<resultOf(d.data[1])>>,
          cache |-> SetField(cache, name, <<resultOf(d.data[1])>>),
          store |-> SetField(store, cacheKey(name), JSONStringify(resultOf(d.data[1]))),
          timer |-> 0]
    ELSE [pc |-> "returned", how |-> "empty", ret |-> <<>>,
          cache |-> cache, store |-> store, timer |-> 0]

\* one that stores the result in neither layer:
gcOnData_NoStore(cache, store, name, d) ==
    IF d.parse = "error"
    THEN [pc |-> "returned", how |-> "badjson", ret |-> <<>>,
          cache |-> cache, store |-> store, timer |-> 0]
    ELSE IF Len(d.data) > 0
    THEN [pc |-> "sleeping", how |-> "found", ret |-> <<resultOf(d.data[1])>>,
          cache |-> cache, store |-> store, timer |-> COOLDOWN_MS]
    ELSE [pc |-> "returned", how |-> "empty", ret |-> <<>>,
          cache |-> cache, store |-> store, timer |-> 0]

\* line 34 resumes: resp.json() rejected (d.parse = "error") or gave d.data;
\* lines 35-44
gcOnData(cache, store, name, d) ==
    IF d.parse = "error"
    THEN [pc |-> gcCatch("badjson").pc, how |-> gcCatch("badjson").how, ret |-> <<>>,
          cache |-> cache, store |-> store, timer |-> 0]
    ELSE IF Len(d.data) > 0
    THEN [pc |-> "sleeping", how |-> "found", ret |-> <<resultOf(d.data[1])>>,
          cache |-> SetField(cache, name, <<resultOf(d.data[1])>>),
          store |-> SetField(store, cacheKey(name), JSONStringify(resultOf(d.data[1]))),
          timer |-> COOLDOWN_MS]
    ELSE [pc |-> "returned", how |-> "empty", ret |-> <<>>,
          cache |-> cache, store |-> store, timer |-> 0]

\* history: the first coordinate returned for a query
Record(hist, name, ret) ==
    IF ret # <<>> /\ name \notin DOMAIN hist THEN SetField(hist, name, ret[1]) ELSE hist

FetchOutcomes == {"neterr", "notok", "ok"}
JsonOutcomes  == {[parse |-> "error", data |-> <<>>], [parse |-> "ok", data |-> <<>>]}
                 \cup {[parse |-> "ok", data |-> <<m>>] : m \in ProviderMatches}

\* the response to the request of line 26 arrives
GC_Response ==
    /\ gc.pc = "fetching"
    /\ \E r \in FetchOutcomes :
         gc' = [gc EXCEPT !.pc = gcOnResponse(r).pc, !.how = gcOnResponse(r).how]
    /\ UNCHANGED <<GEOCODE_CACHE, localStorage, gc2, timerLeft, answered>>
    /\ UNCHANGED runVars /\ UNCHANGED parseVars /\ UNCHANGED pollVars

\* the body of the response has been read
GC_Json ==
    /\ gc.pc = "json"
    /\ \E d \in JsonOutcomes :
         LET n == gcOnData(GEOCODE_CACHE, localStorage, gc.name, d) IN
         /\ gc' = [gc EXCEPT !.pc = n.pc, !.how = n.how, !.ret = n.ret, !.sinceStore = 0]
         /\ GEOCODE_CACHE' = n.cache
         /\ localStorage' = n.store
         /\ timerLeft' = n.timer
    /\ UNCHANGED <<gc2, answered>>
    /\ UNCHANGED runVars /\ UNCHANGED parseVars /\ UNCHANGED pollVars

\* time passes while the call waits on the timer of line 44
Tick ==
    /\ gc.pc = "sleeping"
    /\ timerLeft > 0
    /\ timerLeft' = Max(0, timerLeft - TickMs)
    /\ gc' = [gc EXCEPT !.sinceStore = Min(COOLDOWN_MS, @ + TickMs)]
    /\ UNCHANGED <<GEOCODE_CACHE, localStorage, gc2, answered>>
    /\ UNCHANGED runVars /\ UNCHANGED parseVars /\ UNCHANGED pollVars

\* the timer of line 44 fires; line 46
GC_Timer ==
    /\ gc.pc = "sleeping"
    /\ timerLeft = 0
    /\ gc' = [gc EXCEPT !.pc = "returned"]
    /\ answered' = Record(answered, gc.name, gc.ret)
    /\ UNCHANGED <<GEOCODE_CACHE, localStorage, gc2, timerLeft>>
    /\ UNCHANGED runVars /\ UNCHANGED parseVars /\ UNCHANGED pollVars

\* ------------------------------------------------------------------------
\* handleGenerate (StoryMap.jsx lines 147-229), one action per resumption.
\* run holds its locals: person, locs (data.locations), i (the record of the
\* loop), acc (geocodedLocations), site (the await it is suspended at),
\* geoName; and, as history, log: one entry [i, name, ret] per geocodeCity
\* call that has returned; doc: the markdown of the run, <<text>> once it is
\* known; reqs: the requests its calls sent; failed: a call of the run ended
\* in a failed lookup; before: doc, acc and failed of the run before it.
\* The locals stay readable after the run has ended.
\* ------------------------------------------------------------------------
Msg(kind) == [kind |-> kind, locations |-> <<>>]
MapMsg(locs) == [kind |-> "map", locations |-> locs]

NoBefore == [doc |-> <<>>, acc |-> <<>>, failed |-> FALSE]

NoRun == [person |-> <<>>, locs |-> <<>>, i |-> 0, acc |-> <<>>,
          site |-> "none", geoName |-> <<>>, log |-> <<>>,
          doc |-> <<>>, reqs |-> 0, failed |-> FALSE, before |-> NoBefore]

UserMessages == Len(SelectSeq(messages, LAMBDA m : m.kind = "user"))

\* { ...loc, ...coords }
Merge(loc, coords) == coords @@ loc

\* a loop body that puts a resolved record at the front of the list
Keep_Unshift(acc, loc, coords) ==
    IF coords # <<>> THEN <<Merge(loc, coords[1])>> \o acc ELSE acc

\* "if (coords) geocodedLocations.push({ ...loc, ...coords })" (lines 200-201, 206)
Keep(acc, loc, coords) ==
    IF coords # <<>> THEN Append(acc, Merge(loc, coords[1])) ELSE acc

\* a retry made whatever the query was
ShouldRetry_Always(geoName, loc) == TRUE

\* line 204
ShouldRetry(geoName, loc) == geoName # loc.name

\* await geocodeCity(name) at a call site: geocodeCity runs to its first
\* await or to its return
CallGeocode(name0, site, r0) ==
    \E name \in {name0} : \E r \in {r0} :        \* the arguments, evaluated once
    \E e \in {gcEnter(GEOCODE_CACHE, localStorage, name)} :
    /\ gc' = [pc |-> e.pc, name |-> name, ret |-> e.ret, how |-> e.how,
              reqs |-> IF e.pc = "fetching" THEN 1 ELSE 0,
              known |-> name \in DOMAIN answered,
              cache0 |-> GEOCODE_CACHE, store0 |-> localStorage, sinceStore |-> 0]
    /\ GEOCODE_CACHE' = e.cache
    /\ localStorage' = e.store
    /\ answered' = IF e.pc = "returned" THEN Record(answered, name, e.ret) ELSE answered
    /\ run' = [r EXCEPT !.site = site, !.geoName = IF site = "first" THEN name ELSE @,
                        !.reqs = IF e.pc = "fetching" THEN @ + 1 ELSE @]
    /\ hpc' = "geocode"
    /\ UNCHANGED <<gc2, timerLeft, isLoading, messages>>

\* the for loop of line 187 from record r.i on, up to the next await; at the
\* end of the list lines 211-221 and the finally block
IterFrom(r0) ==
    \E r \in {r0} :                                \* the argument, evaluated once
    IF r.i > Len(r.locs)
    THEN /\ messages' = Append(messages, IF Len(r.acc) = 0 THEN Msg("no_coords")
                                                            ELSE MapMsg(r.acc))
         /\ isLoading' = FALSE
         /\ hpc' = "idle"
         /\ run' = [r EXCEPT !.site = "none"]
         /\ gc' = IdleCall
         /\ UNCHANGED <<GEOCODE_CACHE, localStorage, gc2, timerLeft, answered>>
    ELSE CallGeocode(geoNameOf(r.locs[r.i]), "first", r)

\* an exit that shows no message
EndRun_Silent(kind) ==
    /\ messages' = messages
    /\ isLoading' = FALSE
    /\ hpc' = "idle"
    /\ run' = [run EXCEPT !.site = "none"]

\* an exit that leaves the loading flag set
EndRun_KeepsLoading(kind) ==
    /\ messages' = Append(messages, Msg(kind))
    /\ isLoading' = isLoading
    /\ hpc' = "idle"
    /\ run' = [run EXCEPT !.site = "none"]

\* an early exit of lines 157-180, or the catch block, with its message
EndRun(kind) ==
    /\ messages' = Append(messages, Msg(kind))
    /\ isLoading' = FALSE
    /\ hpc' = "idle"
    /\ run' = [run EXCEPT !.site = "none"]

\* lines 148-149: the call is ignored
HG_Ignore ==
    /\ IF \E text \in Texts : Trim(text) = <<>> \/ isLoading THEN TRUE ELSE FALSE
    /\ UNCHANGED vars

\* a handler without the test of line 149
HG_Start_NoGuard ==
    /\ \E text \in Texts : Trim(text) # <<>>
    /\ UserMessages < MaxRuns
    /\ isLoading' = TRUE
    /\ messages' = Append(messages, Msg("user"))
    /\ hpc' = "extract"
    /\ run' = [NoRun EXCEPT !.before = [doc |-> run.doc, acc |-> run.acc,
                                        failed |-> run.failed]]
    /\ gc' = IdleCall
    /\ UNCHANGED <<GEOCODE_CACHE, localStorage, gc2, timerLeft, answered>>
    /\ UNCHANGED parseVars /\ UNCHANGED pollVars

\* lines 151-156
HG_Start ==
    /\ \E text \in Texts : Trim(text) # <<>>
    /\ ~isLoading
    /\ UserMessages < MaxRuns
    /\ isLoading' = TRUE
    /\ messages' = Append(messages, Msg("user"))
    /\ hpc' = "extract"
    /\ run' = [NoRun EXCEPT !.before = [doc |-> run.doc, acc |-> run.acc,
                                        failed |-> run.failed]]
    /\ gc' = IdleCall
    /\ UNCHANGED <<GEOCODE_CACHE, localStorage, gc2, timerLeft, answered>>
    /\ UNCHANGED parseVars /\ UNCHANGED pollVars

\* line 156 resumes with the figures; lines 157-167
HG_Figures ==
    /\ hpc = "extract"
    /\ \E figures \in {<<>>, <<S_LiBai>>} :
         IF Len(figures) = 0
         THEN EndRun("no_figure")
         ELSE /\ messages' = Append(messages, Msg("progress"))
              /\ run' = [run EXCEPT !.person = figures[1]]
              /\ hpc' = "generate"
              /\ UNCHANGED isLoading
    /\ UNCHANGED geoVars /\ UNCHANGED parseVars /\ UNCHANGED pollVars

\* what generateHistoricalMarkdown resolves with: null, a string, or a value
\* that is no string (ai.js line 51 returns data.content as it is)
MarkdownOutcomes ==
    {[kind |-> "null", text |-> <<>>], [kind |-> "blocks", text |-> <<>>]}
    \cup {[kind |-> "string", text |-> d] : d \in Docs \cup {<<>>}}

\* line 167 resumes with the markdown; lines 168-199
HG_Markdown ==
    /\ hpc = "generate"
    /\ \E md \in MarkdownOutcomes :
         IF md.kind = "null" \/ (md.kind = "string" /\ md.text = <<>>)
         THEN EndRun("no_markdown") /\ UNCHANGED geoVars
         ELSE IF md.kind = "blocks"
         THEN \* text.split is not a function: lines 223-228
              EndRun("error") /\ UNCHANGED geoVars
         ELSE LET data == parseMarkdown(md.text) IN
              IF Len(data.locations) = 0
              THEN EndRun("no_locations") /\ UNCHANGED geoVars
              ELSE IterFrom([run EXCEPT !.locs = data.locations, !.i = 1,
                                        !.doc = <<md.text>>])
    /\ UNCHANGED parseVars /\ UNCHANGED pollVars

\* line 199 resumes with coords; lines 200-208, then the loop goes on
HG_Coords ==
    /\ hpc = "geocode"
    /\ run.site = "first"
    /\ gc.pc = "returned"
    /\ LET loc == run.locs[run.i]
           r == [run EXCEPT !.log = Append(@, [i |-> run.i, name |-> gc.name,
                                                ret |-> gc.ret]),
                            !.failed = @ \/ gc.how \in {"neterr", "notok", "badjson",
                                                        "empty"}]
       IN  IF gc.ret = <<>> /\ ShouldRetry(run.geoName, loc)
           THEN CallGeocode(loc.name, "retry", r)
           ELSE IterFrom([r EXCEPT !.i = @ + 1, !.acc = Keep(@, loc, gc.ret)])
    /\ UNCHANGED parseVars /\ UNCHANGED pollVars

\* line 205 resumes with coords2; line 206, then the loop goes on
HG_Coords2 ==
    /\ hpc = "geocode"
    /\ run.site = "retry"
    /\ gc.pc = "returned"
    /\ LET loc == run.locs[run.i]
           r == [run EXCEPT !.log = Append(@, [i |-> run.i, name |-> gc.name,
                                                ret |-> gc.ret]),
                            !.failed = @ \/ gc.how \in {"neterr", "notok", "badjson",
                                                        "empty"}]
       IN  IterFrom([r EXCEPT !.i = @ + 1, !.acc = Keep(@, loc, gc.ret)])
    /\ UNCHANGED parseVars /\ UNCHANGED pollVars

\* ------------------------------------------------------------------------
\* parseMarkdown on its own, the location loop line by line
\* ------------------------------------------------------------------------
\* lines 30-69
P_Begin ==
    /\ ppc = "start"
    /\ IF pInput = <<>>
       THEN /\ pResult' = EmptyResult
            /\ ppc' = "done"
            /\ UNCHANGED <<pLines, pIdx, pSt>>
       ELSE LET prof == parseProfile(pInput)
                sec == extractSection(pInput, LocationPattern)
            IN  /\ pResult' = [EmptyResult EXCEPT !.person = prof.person,
                                                  !.intro = prof.intro]
                /\ IF sec = <<>>
                   THEN ppc' = "timeline" /\ UNCHANGED <<pLines, pIdx, pSt>>
                   ELSE /\ ppc' = "loc"
                        /\ pLines' = SplitOn(sec, {10})
                        /\ pIdx' = 1
                        /\ pSt' = NoLocState
    /\ UNCHANGED pInput
    /\ UNCHANGED geoVars /\ UNCHANGED runVars /\ UNCHANGED pollVars

\* one iteration of the loop of line 71
P_LocLine ==
    /\ ppc = "loc"
    /\ pIdx <= Len(pLines)
    /\ pSt' = LocStep(pSt, pLines[pIdx])
    /\ pIdx' = pIdx + 1
    /\ UNCHANGED <<pInput, ppc, pLines, pResult>>
    /\ UNCHANGED geoVars /\ UNCHANGED runVars /\ UNCHANGED pollVars

\* line 123
P_LocFlush ==
    /\ ppc = "loc"
    /\ pIdx > Len(pLines)
    /\ pResult' = [pResult EXCEPT !.locations = LocFlush(pSt)]
    /\ ppc' = "timeline"
    /\ UNCHANGED <<pInput, pLines, pIdx, pSt>>
    /\ UNCHANGED geoVars /\ UNCHANGED runVars /\ UNCHANGED pollVars

\* lines 127-150
P_Timeline ==
    /\ ppc = "timeline"
    /\ pResult' = [pResult EXCEPT !.timeline = parseTimeline(pInput)]
    /\ ppc' = "done"
    /\ UNCHANGED <<pInput, pLines, pIdx, pSt>>
    /\ UNCHANGED geoVars /\ UNCHANGED runVars /\ UNCHANGED pollVars

\* parseMarkdown called and returning
D_Parse ==
    /\ ppc = "call"
    /\ pResult' = parseMarkdown(pInput)
    /\ ppc' = "done"
    /\ UNCHANGED <<pInput, pLines, pIdx, pSt>>
    /\ UNCHANGED geoVars /\ UNCHANGED runVars /\ UNCHANGED pollVars

\* handleGenerate lines 175 and 187-197 on the first record of the parsed text
R_Normalize ==
    /\ ppc = "done"
    /\ run.i = 0
    /\ Len(pResult.locations) > 0
    /\ run' = [run EXCEPT !.locs = pResult.locations, !.i = 1,
                          !.geoName = geoNameOf(pResult.locations[1])]
    /\ UNCHANGED <<isLoading, messages, hpc>>
    /\ UNCHANGED geoVars /\ UNCHANGED parseVars /\ UNCHANGED pollVars

\* ------------------------------------------------------------------------
\* The task-polling App (StoryMap.jsx lines 391-613): openMap and pollTask.
\* A request of openMap is numbered r = 1, 2, ...; the server names its task
\* r, and the interval pollTask sets for it has id r.  A polling callback is
\* a record [task, n, pc, status]: the n-th firing of the interval of task,
\* suspended at fetch ("fetch") or at resp.json() ("json", status being what
\* the server answered).  Messages and detail lines are [kind, task].
\* The server sends no queue information; its progress list has one item
\* once the task runs and two once it has ended.
\* ------------------------------------------------------------------------
MaxTasks == 2      \* openMap calls
MaxPolls == 2      \* firings of one interval

\* line 357, for a deployment with a task endpoint
useDirectEndpoint == FALSE

TaskIds == 1..MaxTasks

\* lines 515-518
NoLocals == [progressIndex |-> 0, lastStatus |-> "", shownQueued |-> FALSE,
             shownRunning |-> FALSE]

Line(kind, task) == [kind |-> kind, task |-> task]

\* data.progress.length
ProgressLen(status) ==
    IF status = "running" THEN 1
    ELSE IF status \in {"completed", "failed"} THEN 2
    ELSE 0

\* the App as mounted (lines 392-404)
PollIdle ==
    /\ timerRef = 0
    /\ intervals = {}
    /\ calls = {}
    /\ tasks = [t \in TaskIds |-> "none"]
    /\ locals = [t \in TaskIds |-> NoLocals]
    /\ chat = <<>>
    /\ detailLines = <<>>
    /\ asked = 0
    /\ pending = {}
    /\ fired = [t \in TaskIds |-> 0]

\* openMap up to its first await (lines 588-598)
OM_Start ==
    /\ asked < MaxTasks
    /\ asked' = asked + 1
    /\ detailLines' = <<>>
    /\ chat' = Append(chat, Line("generating", asked + 1))
    /\ pending' = pending \cup {asked + 1}
    /\ UNCHANGED <<timerRef, intervals, calls, tasks, locals, fired>>
    /\ UNCHANGED geoVars /\ UNCHANGED runVars /\ UNCHANGED parseVars

\* pollTask(taskId) (lines 514-528): the interval is set, no callback yet
pollTask(taskId) ==
    IF useDirectEndpoint
    THEN /\ chat' = Append(chat, Line("no_polling", taskId))
         /\ UNCHANGED <<timerRef, intervals, locals>>
    ELSE /\ intervals' = (intervals \ {timerRef}) \cup {taskId}
         /\ timerRef' = taskId
         /\ locals' = [locals EXCEPT ![taskId] = NoLocals]
         /\ UNCHANGED chat

OpenMapOutcomes == {"neterr", "notok", "refused", "task", "direct"}

\* openMap resumes with the answer to POST /generate (lines 599-629)
OM_Response ==
    /\ \E r \in pending : \E o \in OpenMapOutcomes :
         /\ pending' = pending \ {r}
         /\ IF o = "task"
            THEN /\ tasks' = [tasks EXCEPT ![r] = "queued"]
                 /\ pollTask(r)
                 /\ UNCHANGED detailLines
            ELSE IF o = "direct"
            THEN /\ chat' = chat \o <<Line("conclusion", r), Line("files", r),
                                      Line("no_content", r)>>
                 /\ detailLines' = Append(detailLines, Line("result", r))
                 /\ UNCHANGED <<timerRef, intervals, locals, tasks>>
            ELSE /\ chat' = Append(chat, Line(IF o = "neterr" THEN "unreachable"
                                              ELSE "generate_failed", r))
                 /\ UNCHANGED <<timerRef, intervals, locals, tasks, detailLines>>
    /\ UNCHANGED <<calls, asked, fired>>
    /\ UNCHANGED geoVars /\ UNCHANGED runVars /\ UNCHANGED parseVars

\* the interval of a task fires: the callback runs up to await fetch (line 531)
PT_Fire ==
    /\ \E t \in intervals :
         /\ fired[t] < MaxPolls
         /\ fired' = [fired EXCEPT ![t] = @ + 1]
         /\ calls' = calls \cup {[task |-> t, n |-> fired[t] + 1, pc |-> "fetch",
                                  status |-> "none"]}
    /\ UNCHANGED <<timerRef, intervals, tasks, locals, chat, detailLines, asked, pending>>
    /\ UNCHANGED geoVars /\ UNCHANGED runVars /\ UNCHANGED parseVars

\* the fetch of a callback settles (lines 531-533)
PT_Response ==
    /\ \E c \in calls : \E o \in FetchOutcomes :
         /\ c.pc = "fetch"
         /\ calls' = IF o = "ok"
                     THEN (calls \ {c}) \cup {[c EXCEPT !.pc = "json",
                                                        !.status = tasks[c.task]]}
                     ELSE calls \ {c}
    /\ UNCHANGED <<timerRef, intervals, tasks, locals, chat, detailLines, asked,
                   pending, fired>>
    /\ UNCHANGED geoVars /\ UNCHANGED runVars /\ UNCHANGED parseVars

\* renderProgress(data.progress, progressIndex) (lines 455-471)
ProgressLines(t, from, len) == [k \in 1..Max(0, len - from) |-> Line("progress", t)]

\* lines 543-553
StatusLines(t, loc, status) ==
    IF status # loc.lastStatus
    THEN (IF status = "running" /\ ~loc.shownRunning THEN <<Line("running", t)>> ELSE <<>>)
         \o (IF status = "queued" /\ ~loc.shownQueued THEN <<Line("queued", t)>> ELSE <<>>)
    ELSE <<>>

\* lines 554-584
ResultMessages(t, status) ==
    IF status = "completed"
    THEN <<Line("conclusion", t), Line("files", t), Line("link", t)>>
    ELSE IF status = "failed" THEN <<Line("failed", t)>>
    ELSE <<>>

PollBodies == {"badjson", "refused", "data"}

\* the body of the answer has been read (lines 534-586)
PT_Json ==
    /\ \E c \in calls : \E b \in PollBodies :
         LET t == c.task
             loc == locals[t]
         IN  /\ c.pc = "json"
             /\ calls' = calls \ {c}
             /\ IF b = "badjson"
                THEN UNCHANGED <<intervals, locals, chat, detailLines>>
                ELSE IF b = "refused"
                THEN /\ chat' = Append(chat, Line("query_failed", t))
                     /\ intervals' = intervals \ {timerRef}
                     /\ UNCHANGED <<locals, detailLines>>
                ELSE /\ locals' = [locals EXCEPT ![t] =
                          [progressIndex |-> ProgressLen(c.status),
                           lastStatus |-> IF c.status # loc.lastStatus THEN c.status
                                          ELSE loc.lastStatus,
                           shownQueued |-> loc.shownQueued
                                           \/ (c.status # loc.lastStatus /\ c.status = "queued"),
                           shownRunning |-> loc.shownRunning
                                           \/ (c.status # loc.lastStatus /\ c.status = "running")]]
                     /\ detailLines' = detailLines
                           \o ProgressLines(t, loc.progressIndex, ProgressLen(c.status))
                           \o StatusLines(t, loc, c.status)
                           \o (IF c.status \in {"completed", "failed"}
                               THEN <<Line("result", t)>> ELSE <<>>)
                     /\ chat' = chat \o ResultMessages(t, c.status)
                     /\ intervals' = IF c.status \in {"completed", "failed"}
                                     THEN intervals \ {timerRef} ELSE intervals
    /\ UNCHANGED <<timerRef, tasks, asked, pending, fired>>
    /\ UNCHANGED geoVars /\ UNCHANGED runVars /\ UNCHANGED parseVars

\* the server moves a task on
Srv_Advance ==
    /\ \E t \in TaskIds :
         \/ tasks[t] = "queued" /\ tasks' = [tasks EXCEPT ![t] = "running"]
         \/ tasks[t] = "running"
            /\ \E e \in {"completed", "failed"} : tasks' = [tasks EXCEPT ![t] = e]
    /\ UNCHANGED <<timerRef, intervals, calls, locals, chat, detailLines, asked,
                   pending, fired>>
    /\ UNCHANGED geoVars /\ UNCHANGED runVars /\ UNCHANGED parseVars

\* ------------------------------------------------------------------------
\* Specifications
\* ------------------------------------------------------------------------
GeoInit ==
    /\ PollIdle
    /\ GEOCODE_CACHE = EmptyMap
    /\ gc = IdleCall
    /\ gc2 = IdleCall
    /\ timerLeft = 0
    /\ answered = EmptyMap
    /\ isLoading = FALSE
    /\ messages = <<>>
    /\ hpc = "idle"
    /\ run = NoRun

ParseIdle ==
    /\ pInput = <<>>
    /\ ppc = "off"
    /\ pLines = <<>>
    /\ pIdx = 0
    /\ pSt = NoLocState
    /\ pResult = EmptyResult

\* the page has loaded; the durable store holds what earlier sessions left
Init ==
    /\ GeoInit
    /\ localStorage \in InitialStores
    /\ ParseIdle

Next ==
    \/ HG_Ignore
    \/ HG_Start
    \/ HG_Figures
    \/ HG_Markdown
    \/ HG_Coords
    \/ HG_Coords2
    \/ GC_Response
    \/ GC_Json
    \/ Tick
    \/ GC_Timer

Spec == Init /\ [][Next]_vars

\* The steps a run in flight takes by itself.  The event loop resumes every
\* continuation that is ready and fires every timer that is due; that every
\* request (figures, markdown, geocoding, reading the body) is answered or
\* fails is the premise on the environment.
RunSteps ==
    \/ HG_Figures
    \/ HG_Markdown
    \/ HG_Coords
    \/ HG_Coords2
    \/ GC_Response
    \/ GC_Json
    \/ Tick
    \/ GC_Timer

LiveInit ==
    /\ GeoInit
    /\ localStorage = EmptyMap
    /\ ParseIdle

SpecLive == LiveInit /\ [][Next]_vars /\ WF_vars(RunSteps)

\* parseMarkdown on each text of ParseInputs, the location loop line by line
ParseInit ==
    /\ GeoInit
    /\ localStorage = EmptyMap
    /\ pInput \in ParseInputs
    /\ ppc = "start"
    /\ pLines = <<>>
    /\ pIdx = 0
    /\ pSt = NoLocState
    /\ pResult = EmptyResult

ParseNext ==
    \/ P_Begin
    \/ P_LocLine
    \/ P_LocFlush
    \/ P_Timeline

SpecParse == ParseInit /\ [][ParseNext]_vars

\* parseMarkdown as a function, on each text of DocInputs
DocInit ==
    /\ GeoInit
    /\ localStorage = EmptyMap
    /\ pInput \in DocInputs
    /\ ppc = "call"
    /\ pLines = <<>>
    /\ pIdx = 0
    /\ pSt = NoLocState
    /\ pResult = EmptyResult

DocNext == D_Parse

SpecDoc == DocInit /\ [][DocNext]_vars

\* parseMarkdown, then the normalizer, on each text of RecordInputs
RecordInit ==
    /\ GeoInit
    /\ localStorage = EmptyMap
    /\ pInput \in RecordInputs
    /\ ppc = "call"
    /\ pLines = <<>>
    /\ pIdx = 0
    /\ pSt = NoLocState
    /\ pResult = EmptyResult

RecordNext ==
    \/ D_Parse
    \/ R_Normalize

SpecRecord == RecordInit /\ [][RecordNext]_vars

\* parseMarkdown as a function, on texts of one profile section or of one
\* timeline section
MaxBlockLines == 3

S_Tang      == <<21776>>                                          \* "唐"
\* "- **时代**：唐"
L_Era       == <<45, 32>> \o T_Stars \o T_ShiDai \o T_Stars \o <<65306>> \o S_Tang
\* "- **朝代**：唐"
L_Dynasty   == <<45, 32>> \o T_Stars \o T_ChaoDai \o T_Stars \o <<65306>> \o S_Tang
\* "- **姓名**: 李白"   (ASCII colon)
L_NameAscii == <<45, 32>> \o T_Stars \o T_XingMing \o T_Stars \o <<58, 32>> \o S_LiBai
\* "### 生平概述"
L_Overview  == <<35, 35, 35, 32>> \o T_ShengPingGaiShu
L_Text      == <<120>>                                            \* "x"
\* "|---|---|---|"
L_Sep       == <<124, 45, 45, 45, 124, 45, 45, 45, 124, 45, 45, 45, 124>>
\* "| 7 | 1 |"
L_RowShort  == <<124, 32, 55, 32, 124, 32, 49, 32, 124>>
\* "| 7 | 1 | a---b |"
L_RowDash   == <<124, 32, 55, 32, 124, 32, 49, 32, 124, 32, 97, 45, 45, 45, 98, 32, 124>>

ProfileLines  == {L_Name, L_NameAscii, L_Era, L_Dynasty, L_Overview, L_Text,
                  L_H3ChangAn, <<>>}
TimelineLines == {L_Row, L_Sep, L_Row2, L_RowShort, L_RowDash, L_Text}

BlockInputs ==
    {Join(<<L_H2Profile>> \o ls, <<10>>) : ls \in SeqsUpTo(ProfileLines, MaxBlockLines)}
    \cup
    {Join(<<L_H2Time>> \o ls, <<10>>) : ls \in SeqsUpTo(TimelineLines, MaxBlockLines)}

BlockInit ==
    /\ GeoInit
    /\ localStorage = EmptyMap
    /\ pInput \in BlockInputs
    /\ ppc = "call"
    /\ pLines = <<>>
    /\ pIdx = 0
    /\ pSt = NoLocState
    /\ pResult = EmptyResult

BlockNext == D_Parse

SpecBlock == BlockInit /\ [][BlockNext]_vars

\* geocodeCity called by two callers whose calls overlap: gc is the call of
\* the one, gc2 the call of the other; each call runs as in part_000, the
\* awaits of the two interleave in every order.  The wait of gc2 on its timer
\* is not measured.
OverlapQueries == {S_ChangAn, S_LuoYang}

\* the first caller calls geocodeCity(name)
OV_Call ==
    /\ gc.pc \in {"idle", "returned"}
    /\ \E name \in OverlapQueries :
         LET e == gcEnter(GEOCODE_CACHE, localStorage, name) IN
         /\ gc' = [pc |-> e.pc, name |-> name, ret |-> e.ret, how |-> e.how,
                   reqs |-> IF e.pc = "fetching" THEN 1 ELSE 0,
                   known |-> name \in DOMAIN answered,
                   cache0 |-> GEOCODE_CACHE, store0 |-> localStorage, sinceStore |-> 0]
         /\ GEOCODE_CACHE' = e.cache
         /\ localStorage' = e.store
         /\ answered' = IF e.pc = "returned" THEN Record(answered, name, e.ret)
                        ELSE answered
    /\ UNCHANGED <<gc2, timerLeft>>
    /\ UNCHANGED runVars /\ UNCHANGED parseVars /\ UNCHANGED pollVars

\* the second caller calls geocodeCity(name)
OV_Call2 ==
    /\ gc2.pc \in {"idle", "returned"}
    /\ \E name \in OverlapQueries :
         LET e == gcEnter(GEOCODE_CACHE, localStorage, name) IN
         /\ gc2' = [pc |-> e.pc, name |-> name, ret |-> e.ret, how |-> e.how,
                    reqs |-> IF e.pc = "fetching" THEN 1 ELSE 0,
                    known |-> name \in DOMAIN answered,
                    cache0 |-> GEOCODE_CACHE, store0 |-> localStorage, sinceStore |-> 0]
         /\ GEOCODE_CACHE' = e.cache
         /\ localStorage' = e.store
         /\ answered' = IF e.pc = "returned" THEN Record(answered, name, e.ret)
                        ELSE answered
    /\ UNCHANGED <<gc, timerLeft>>
    /\ UNCHANGED runVars /\ UNCHANGED parseVars /\ UNCHANGED pollVars

\* the response to the request of the second call arrives
GC2_Response ==
    /\ gc2.pc = "fetching"
    /\ \E r \in FetchOutcomes :
         gc2' = [gc2 EXCEPT !.pc = gcOnResponse(r).pc, !.how = gcOnResponse(r).how]
    /\ UNCHANGED <<GEOCODE_CACHE, localStorage, gc, timerLeft, answered>>
    /\ UNCHANGED runVars /\ UNCHANGED parseVars /\ UNCHANGED pollVars

\* the body of the response of the second call has been read
GC2_Json ==
    /\ gc2.pc = "json"
    /\ \E d \in JsonOutcomes :
         LET n == gcOnData(GEOCODE_CACHE, localStorage, gc2.name, d) IN
         /\ gc2' = [gc2 EXCEPT !.pc = n.pc, !.how = n.how, !.ret = n.ret]
         /\ GEOCODE_CACHE' = n.cache
         /\ localStorage' = n.store
    /\ UNCHANGED <<gc, timerLeft, answered>>
    /\ UNCHANGED runVars /\ UNCHANGED parseVars /\ UNCHANGED pollVars

\* the timer of the second call fires; line 46
GC2_Timer ==
    /\ gc2.pc = "sleeping"
    /\ gc2' = [gc2 EXCEPT !.pc = "returned"]
    /\ answered' = Record(answered, gc2.name, gc2.ret)
    /\ UNCHANGED <<GEOCODE_CACHE, localStorage, gc, timerLeft>>
    /\ UNCHANGED runVars /\ UNCHANGED parseVars /\ UNCHANGED pollVars

OverlapInit ==
    /\ GeoInit
    /\ localStorage = EmptyMap
    /\ ParseIdle

OverlapNext ==
    \/ OV_Call
    \/ OV_Call2
    \/ GC_Response
    \/ GC_Json
    \/ Tick
    \/ GC_Timer
    \/ GC2_Response
    \/ GC2_Json
    \/ GC2_Timer

SpecOverlap == OverlapInit /\ [][OverlapNext]_vars

\* openMap and pollTask with the callbacks of the intervals, in every order
PollInit ==
    /\ GeoInit
    /\ localStorage = EmptyMap
    /\ ParseIdle

PollNext ==
    \/ OM_Start
    \/ OM_Response
    \/ PT_Fire
    \/ PT_Response
    \/ PT_Json
    \/ Srv_Advance

SpecPoll == PollInit /\ [][PollNext]_vars

\* ========================================================================
\* Properties
\* ========================================================================

\* ---- geocodeCity -------------------------------------------------------
KeyOf(name) == T_GeocodePrefix \o name

\* the durable entry of the query as the call found it: <<text>> or <<>>
StoredAtStart == IF KeyOf(gc.name) \in DOMAIN gc.store0
                 THEN <<gc.store0[KeyOf(gc.name)]>> ELSE <<>>

\* the durable entry of the query is as the call found it, or gone
DurableNotWritten ==
    KeyOf(gc.name) \in DOMAIN localStorage =>
        /\ KeyOf(gc.name) \in DOMAIN gc.store0
        /\ localStorage[KeyOf(gc.name)] = gc.store0[KeyOf(gc.name)]

LookupFailures == {"neterr", "notok", "badjson", "empty"}

\* C1: a call for a query that an earlier call answered with a coordinate
\* returns that same coordinate and sends no request, so the two calls
\* together send at most one; a call sends at most one request, and none
\* for a query that has an entry in memory.
C1_SecondCallServedFromCache ==
    /\ gc.reqs <= 1
    /\ gc.known => /\ gc.reqs = 0
                   /\ gc.pc = "returned"
                   /\ gc.ret = <<answered[gc.name]>>
    /\ gc.reqs = 1 => gc.name \notin DOMAIN gc.cache0

C1_Witness ==
    /\ gc.known
    /\ gc.pc = "returned"
    /\ gc.ret # <<>>
    /\ KeyOf(gc.name) \in DOMAIN localStorage
    /\ localStorage[KeyOf(gc.name)] = JSONStringify(gc.ret[1])

\* C6: a call whose lookup answered with an empty array of matches returns
\* null, and neither layer has gained or changed an entry for the query.
C6_EmptyAnswerLeavesNoEntry ==
    (gc.pc = "returned" /\ gc.how = "empty") =>
        /\ gc.ret = <<>>
        /\ gc.name \notin DOMAIN GEOCODE_CACHE
        /\ GEOCODE_CACHE = gc.cache0
        /\ DurableNotWritten

C6_Witness ==
    /\ gc.pc = "returned"
    /\ gc.how = "empty"
    /\ gc.reqs = 1
    /\ gc.ret = <<>>

WellFormedCoordinate(text) ==
    /\ JSONParse(text).ok
    /\ JSONParse(text).value # <<>>
    /\ JSONParse(text).value[1].lat[1] = "num"
    /\ JSONParse(text).value[1].lng[1] = "num"

\* the durable entry the call found was removed, was neither returned nor
\* copied into memory, and the call went on to the lookup without an error
TreatedAsMiss ==
    /\ gc.reqs = 1
    /\ gc.how \notin {"memory", "durable"}
    /\ gc.pc # "threw"
    /\ KeyOf(gc.name) \in DOMAIN localStorage => gc.how = "found"
    /\ gc.pc \in {"fetching", "json"} => gc.name \notin DOMAIN GEOCODE_CACHE

\* C8: a durable entry under the key of the query that is not a well-formed
\* stored coordinate is treated as a miss: it is removed, it is neither
\* returned nor copied into memory, and the call goes on to the lookup.
C8_AsStated ==
    (/\ gc.pc # "idle"
     /\ gc.name # <<>>
     /\ gc.name \notin DOMAIN gc.cache0
     /\ StoredAtStart # <<>>
     /\ ~WellFormedCoordinate(StoredAtStart[1])) => TreatedAsMiss

\* C9: the memory layer is consulted first, then the durable layer under the
\* key "geocode_" + query; a durable hit is put into memory and returned
\* with no request; a request is sent only when both layers miss.
C9_LayersInOrder ==
    (gc.pc # "idle" /\ gc.name # <<>>) =>
        LET inMemory == gc.name \in DOMAIN gc.cache0
            usable   == /\ StoredAtStart # <<>>
                        /\ StoredAtStart[1] # <<>>
                        /\ JSONParse(StoredAtStart[1]).ok
        IN  /\ inMemory => /\ gc.how = "memory"
                           /\ gc.pc = "returned"
                           /\ gc.ret = gc.cache0[gc.name]
                           /\ GEOCODE_CACHE = gc.cache0
                           /\ localStorage = gc.store0
            /\ (~inMemory /\ usable) =>
                           /\ gc.how = "durable"
                           /\ gc.pc = "returned"
                           /\ gc.ret = JSONParse(StoredAtStart[1]).value
                           /\ gc.name \in DOMAIN GEOCODE_CACHE
                           /\ GEOCODE_CACHE[gc.name] = gc.ret
                           /\ localStorage = gc.store0
            /\ gc.reqs = (IF ~inMemory /\ ~usable THEN 1 ELSE 0)

C9_Witness ==
    /\ gc.pc = "returned"
    /\ gc.how = "durable"
    /\ gc.ret # <<>>
    /\ gc.name \notin DOMAIN gc.cache0
    /\ gc.name \in DOMAIN GEOCODE_CACHE
    /\ gc.reqs = 0

\* C10: after a successful lookup the result is in both layers before the
\* wait begins, and the call returns only when the cooldown has passed; a
\* call served from a cache layer returns without waiting.
C10_StoreThenCooldown ==
    /\ gc.pc = "sleeping" =>
          /\ gc.how = "found"
          /\ gc.name \in DOMAIN GEOCODE_CACHE
          /\ GEOCODE_CACHE[gc.name] = gc.ret
          /\ KeyOf(gc.name) \in DOMAIN localStorage
          /\ localStorage[KeyOf(gc.name)] = JSONStringify(gc.ret[1])
    /\ gc.how = "found" =>
          /\ gc.pc \in {"sleeping", "returned"}
          /\ gc.pc = "returned" => gc.sinceStore >= COOLDOWN_MS
    /\ gc.how \in {"memory", "durable"} =>
          /\ gc.pc = "returned"
          /\ gc.sinceStore = 0

C10_Witness ==
    /\ gc.pc = "returned"
    /\ gc.how = "found"
    /\ gc.sinceStore >= COOLDOWN_MS
    /\ gc.name \in DOMAIN GEOCODE_CACHE

\* ---- handleGenerate ----------------------------------------------------
\* the calls made for record j that have returned, in order
CallsFor(j) == SelectSeq(run.log, LAMBDA e : e.i = j)

\* the records the loop has finished with
Processed == {j \in 1..Len(run.locs) : j < run.i}

\* a call for record j returned a coordinate
Resolved(j) == \E k \in 1..Len(CallsFor(j)) : CallsFor(j)[k].ret # <<>>

CoordinateOf(j) ==
    CallsFor(j)[CHOOSE k \in 1..Len(CallsFor(j)) : CallsFor(j)[k].ret # <<>>].ret[1]

\* the resolved ones among the processed records, in the order of the list
KeptIndices == SelectSeq([j \in 1..Cardinality(Processed) |-> j], Resolved)

LastMessage == messages[Len(messages)]

\* C4: the list of geocoded locations holds, in the order of the extracted
\* list, each processed record once if a call for it (for its query, or for
\* its name on retry) returned a coordinate, and no other; the map shown at
\* the end is that list for all the records.
C4_ResolvedRecordsInOrder ==
    /\ Len(run.acc) = Len(KeptIndices)
    /\ \A k \in 1..Len(KeptIndices) :
          /\ \A f \in DOMAIN run.locs[KeptIndices[k]] :
                run.acc[k][f] = run.locs[KeptIndices[k]][f]
          /\ run.acc[k].lat = CoordinateOf(KeptIndices[k]).lat
          /\ run.acc[k].lng = CoordinateOf(KeptIndices[k]).lng
    /\ (hpc = "idle" /\ messages # <<>> /\ LastMessage.kind = "map") =>
          /\ LastMessage.locations = run.acc
          /\ Processed = 1..Len(run.locs)
          /\ run.acc # <<>>
    /\ (hpc = "idle" /\ messages # <<>> /\ LastMessage.kind = "no_coords") =>
          /\ run.acc = <<>>
          /\ Processed = 1..Len(run.locs)

C4_Witness ==
    /\ hpc = "idle"
    /\ messages # <<>>
    /\ LastMessage.kind = "map"
    /\ Len(run.locs) = 2
    /\ Len(LastMessage.locations) = 1
    /\ ~Resolved(1)
    /\ Resolved(2)

\* C5: a record gets at most two calls; the first is for its normalized
\* query; the second, for its name, is made exactly when the first returned
\* null and the query differs from the name; a record whose query equals its
\* name and fails gets no retry and is dropped.
C5_RetryOnlyWhenQueryDiffers ==
    \A j \in 1..Len(run.locs) :
        LET es == CallsFor(j) IN
        /\ Len(es) <= 2
        /\ Len(es) >= 1 => es[1].name = geoNameOf(run.locs[j])
        /\ Len(es) = 2 => es[2].name = run.locs[j].name
        /\ j \in Processed =>
              /\ Len(es) >= 1
              /\ Len(es) = 2 <=> (es[1].ret = <<>> /\ es[1].name # run.locs[j].name)
              /\ (es[1].ret = <<>> /\ es[1].name = run.locs[j].name) =>
                    \A k \in 1..Len(run.acc) : run.acc[k].name # run.locs[j].name
        /\ (j = run.i /\ hpc = "geocode" /\ run.site = "retry") =>
              /\ Len(es) = 1
              /\ es[1].ret = <<>>
              /\ es[1].name # run.locs[j].name
              /\ gc.name = run.locs[j].name

C5_Witness ==
    /\ hpc = "idle"
    /\ Processed = {1, 2}
    /\ Len(CallsFor(1)) = 2
    /\ Len(CallsFor(2)) = 1
    /\ CallsFor(2)[1].ret = <<>>
    /\ geoNameOf(run.locs[2]) = run.locs[2].name

\* the run works on the markdown the run before it worked on
SameTextAsBefore == run.doc # <<>> /\ run.doc = run.before.doc

\* the loop of the run is over
LoopOver == hpc = "idle" /\ run.i > Len(run.locs)

\* C11: a run on the markdown of the run before it, started with the cache
\* that run left, sends no geocoding request and ends with the same list.
C11_AsStated ==
    SameTextAsBefore =>
        /\ run.reqs = 0
        /\ LoopOver => run.acc = run.before.acc

\* C11, amended: the same, when no call of the run before ended in a failed
\* lookup (a failed lookup leaves no entry, so its query is asked again).
C11_RerunServedFromCache ==
    (SameTextAsBefore /\ ~run.before.failed) =>
        /\ run.reqs = 0
        /\ LoopOver => run.acc = run.before.acc

C11_Witness ==
    /\ SameTextAsBefore
    /\ ~run.before.failed
    /\ LoopOver
    /\ Len(run.locs) = 2
    /\ Len(run.acc) = 2
    /\ run.acc = run.before.acc
    /\ run.reqs = 0

ZeroResultKinds == {"no_figure", "no_markdown", "no_locations", "no_coords"}

\* the messages of messages whose kind is in kinds
CountOf(kinds) == Len(SelectSeq(messages, LAMBDA m : m.kind \in kinds))

RunsEnded == IF hpc = "idle" THEN UserMessages ELSE UserMessages - 1

\* what C19 says beyond the list of outcomes: a map carries a list that is
\* not empty; a run that extracted no location called no geocoder; "no
\* coordinates" is said of a run that did extract locations
OutcomesAreTold ==
    /\ hpc = "idle" => ~isLoading
    /\ \A k \in 1..Len(messages) :
          messages[k].kind = "map" => messages[k].locations # <<>>
    /\ (hpc = "idle" /\ messages # <<>> /\ LastMessage.kind = "no_locations") =>
          /\ run.log = <<>>
          /\ run.reqs = 0
          /\ gc = IdleCall
    /\ (hpc = "idle" /\ messages # <<>> /\ LastMessage.kind = "no_coords") =>
          /\ Len(run.locs) > 0
          /\ run.acc = <<>>

IsCoordinate(v) ==
    /\ DOMAIN v = {"lat", "lng"}
    /\ v.lat[1] = "num"
    /\ v.lng[1] = "num"

\* C20: a value geocodeCity returns that is not null is a coordinate whose
\* latitude and longitude are numbers, and so every entry of the list of
\* geocoded locations has both as numbers.
C20_AsStated ==
    /\ (gc.pc = "returned" /\ gc.ret # <<>>) => IsCoordinate(gc.ret[1])
    /\ \A k \in 1..Len(run.acc) :
          /\ {"lat", "lng"} \subseteq DOMAIN run.acc[k]
          /\ run.acc[k].lat[1] = "num"
          /\ run.acc[k].lng[1] = "num"

\* ---- parseMarkdown -----------------------------------------------------
InputLines == SplitOn(pInput, {10})

\* the "###" headers among lines, in order
HeadersAmong(lines) == SelectSeq(lines, LAMBDA l : headerMatch(l) # <<>>)

IsSectionHeader(line, pats) == IsH2(line) /\ MatchesAny(line, pats)

\* the lines of the section announced by a header of pats: from the first
\* such header up to the next "##" header that is none, or to the end
SectionLines(lines, pats) ==
    LET starts == {i \in 1..Len(lines) : IsSectionHeader(lines[i], pats)}
    IN  IF starts = {} THEN <<>>
        ELSE LET first == CHOOSE i \in starts : \A i2 \in starts : i <= i2
                 ends  == {j \in (first + 1)..Len(lines) :
                              IsH2(lines[j]) /\ ~MatchesAny(lines[j], pats)}
                 last  == IF ends = {} THEN Len(lines)
                          ELSE (CHOOSE j \in ends : \A j2 \in ends : j <= j2) - 1
             IN  SelectSeq(SubSeq(lines, first + 1, last),
                           LAMBDA l : ~IsSectionHeader(l, pats))

\* records, one per header of hs and in the order of hs
OnePerHeader(records, hs) ==
    /\ Len(records) = Len(hs)
    /\ \A j \in 1..Len(hs) :
          /\ records[j].name = NewLocation(headerMatch(hs[j])[1]).name
          /\ records[j].type = NewLocation(headerMatch(hs[j])[1]).type

\* C2: a location section with k >= 1 "###" headers gives exactly k records,
\* in the order of the headers, whether the section ends at a "##" header or
\* at the end of the text; during the loop the records pushed so far and the
\* open one are those of the headers read so far, the open one being the last.
C2_OneRecordPerHeader ==
    /\ ppc = "loc" =>
          /\ OnePerHeader(pSt.out \o pSt.cur, HeadersAmong(Take(pLines, pIdx - 1)))
          /\ Len(pSt.cur) = (IF HeadersAmong(Take(pLines, pIdx - 1)) = <<>> THEN 0 ELSE 1)
    /\ (ppc \in {"timeline", "done"}
        /\ Len(HeadersAmong(SectionLines(InputLines, LocationPattern))) >= 1) =>
          OnePerHeader(pResult.locations,
                       HeadersAmong(SectionLines(InputLines, LocationPattern)))

C2_Witness ==
    /\ ppc = "done"
    /\ InputLines = <<L_H2Loc, L_H3ChangAn, L_H3Birth, L_H3ChangAn>>
    /\ Len(pResult.locations) = 3
    /\ pResult.locations[2].type = "birth"
    /\ pResult.locations[3].name = S_ChangAn

RecognizedPatterns == ProfilePattern \cup LocationPattern \cup TimelinePattern

NoRecognizedSection ==
    \A i \in 1..Len(InputLines) : ~IsSectionHeader(InputLines[i], RecognizedPatterns)

\* C3: for a text with no "##" header of the profile, the locations or the
\* timeline, parseMarkdown returns no location, no timeline entry and a
\* person with no field.
C3_NoSectionGivesEmptyResult ==
    (ppc = "done" /\ NoRecognizedSection) =>
        /\ pResult.locations = <<>>
        /\ pResult.timeline = <<>>
        /\ DOMAIN pResult.person = {}

C3_Witness ==
    /\ ppc = "done"
    /\ NoRecognizedSection
    /\ InputLines = <<L_H2Other, L_H3ChangAn, L_Name>>
    /\ pResult.locations = <<>>
    /\ DOMAIN pResult.person = {}

\* ---- one record: header, fields, normalizer -----------------------------
\* the text after "### " of the header line of the text
HeaderText == Drop(InputLines[2], 4)

\* the record of the text, once parsed
HasRecord == ppc = "done" /\ Len(pResult.locations) = 1
TheRecord == pResult.locations[1]

StartsWithEmoji(t) == \E e \in Emojis : StartsWith(t, e)

\* C12: the header text decides type and name: with the birth-place marker
\* the type is birth and the marker is gone from the name, else with the
\* death-place marker the type is death and the marker is gone, else the
\* important-location marker is gone and the type is normal, otherwise the
\* type is normal and the name is the header text. (Header texts without emoji.)
C12_AsStated ==
    (HasRecord /\ ~StartsWithEmoji(HeaderText)) =>
        /\ HeaderText = T_ChuShengDi \o <<65306>> \o S_ChangAn =>
              TheRecord.type = "birth" /\ TheRecord.name = S_ChangAn
        /\ IF Includes(HeaderText, T_ChuShengDi)
           THEN TheRecord.type = "birth" /\ ~Includes(TheRecord.name, T_ChuShengDi)
           ELSE IF Includes(HeaderText, T_QuShiDi)
           THEN TheRecord.type = "death" /\ ~Includes(TheRecord.name, T_QuShiDi)
           ELSE IF Includes(HeaderText, T_ZhongYaoDiDian)
           THEN TheRecord.type = "normal" /\ ~Includes(TheRecord.name, T_ZhongYaoDiDian)
           ELSE TheRecord.type = "normal" /\ TheRecord.name = Trim(HeaderText)

\* C13: every record parseMarkdown returns has a name that is not empty and
\* a type among birth, death and normal.
C13_AsStated ==
    ppc = "done" =>
        \A j \in 1..Len(pResult.locations) :
            /\ pResult.locations[j].name # <<>>
            /\ pResult.locations[j].type \in {"birth", "death", "normal"}

\* the header text without its leading emoji and the blanks after it
AfterEmoji(t) == Drop(Drop(t, 2), LeadRun(Drop(t, 2), WhiteSpace))

\* C14: a header that begins with one emoji gives the name that the same
\* header without the emoji gives, and no code unit of the emoji is in it.
C14_AsStated ==
    (HasRecord /\ StartsWithEmoji(HeaderText) /\ AfterEmoji(HeaderText) # <<>>) =>
        /\ TheRecord.name =
              NewLocation(headerMatch(T_Hash3 \o <<32>> \o AfterEmoji(HeaderText))[1]).name
        /\ \A i \in 1..Len(TheRecord.name) : TheRecord.name[i] \notin 55296..57343

\* the value of the field line of the text, when its key is key
FieldLine == InputLines[3]
FieldPrefix(key) == <<45, 32>> \o T_Stars \o key \o T_Stars \o <<65306>>
IsField(key) == Len(InputLines) = 3 /\ StartsWith(FieldLine, FieldPrefix(key))
FieldValue(key) == Drop(FieldLine, Len(FieldPrefix(key)))

\* the k-th smallest element of a set of numbers
Kth(S, k) == CHOOSE x \in S : Cardinality({y \in S : y < x}) = k - 1

\* the stretches of v between two semicolons, or an end of v and a semicolon
StretchesOf(v) ==
    LET cuts == {0, Len(v) + 1} \cup {i \in 1..Len(v) : v[i] \in {65307, 59}}
    IN  [k \in 1..(Cardinality(cuts) - 1) |->
            SubSeq(v, Kth(cuts, k) + 1, Kth(cuts, k + 1) - 1)]

Blank(t) == \A i \in 1..Len(t) : IsWS(t[i])

\* t without the blanks around it
Unpadded(t) ==
    IF Blank(t) THEN <<>>
    ELSE SubSeq(t, CHOOSE i \in 1..Len(t) : ~IsWS(t[i]) /\ \A j \in 1..(i - 1) : IsWS(t[j]),
                   CHOOSE i \in 1..Len(t) : ~IsWS(t[i]) /\ \A j \in (i + 1)..Len(t) : IsWS(t[j]))

\* the stretches that are not blank, in order
KeptStretches(v) == SelectSeq(StretchesOf(v), LAMBDA t : ~Blank(t))

\* C15: the quotes of a record are the stretches of the field value between
\* semicolons (Chinese or ASCII), each without the blanks around it, the
\* blank ones dropped, in the order of the value; a comma cuts nothing.
C15_QuotesSplitAtSemicolons ==
    (HasRecord /\ IsField(T_MingPianMingJu)) =>
        /\ Len(TheRecord.quotes) = Len(KeptStretches(FieldValue(T_MingPianMingJu)))
        /\ \A k \in 1..Len(TheRecord.quotes) :
              TheRecord.quotes[k] = Unpadded(KeptStretches(FieldValue(T_MingPianMingJu))[k])
        /\ FieldValue(T_MingPianMingJu) = S_JingYeSi \o <<65307>> \o S_XiangSi =>
              TheRecord.quotes = <<S_JingYeSi, S_XiangSi>>

C15_Witness ==
    /\ HasRecord
    /\ FieldValue(T_MingPianMingJu)
          = S_JingYeSi \o <<65292>> \o S_XiangSi \o <<59, 32>> \o S_XiangSi \o <<44, 32>>
    /\ TheRecord.quotes = <<S_JingYeSi \o <<65292>> \o S_XiangSi, S_XiangSi \o <<44>>>>

\* the normalizer has run on the record of the text
Normalized == ppc = "done" /\ run.i = 1 /\ Len(run.locs) = 1

\* the base string: the value of the "位置" field when the text has one, the
\* name of the record otherwise
BaseString == IF IsField(T_WeiZhi) THEN FieldValue(T_WeiZhi) ELSE run.locs[1].name

HasParen(t) == \E i \in 1..Len(t) : t[i] \in {65288, 40, 65289, 41}

\* C16: the base string is locationDesc when the record has one and the name
\* otherwise; "金陵（今南京）" gives the query "南京", and a base string with
\* no modern-name marker and no parenthesis is the query as it is.
C16_BaseStringAndModernName ==
    Normalized =>
        /\ (~Includes(BaseString, T_Jin) /\ ~HasParen(BaseString)) =>
              run.geoName = BaseString
        /\ BaseString = S_JinLing \o <<65288>> \o T_Jin \o S_NanJing \o <<65289>> =>
              run.geoName = S_NanJing

C16_Witness ==
    /\ Normalized
    /\ IsField(T_WeiZhi)
    /\ FieldValue(T_WeiZhi) = S_JinLing \o <<65288>> \o T_Jin \o S_NanJing \o <<65289>>
    /\ run.locs[1].name = S_ChangAn
    /\ run.geoName = S_NanJing

\* C17: with a base string from locationDesc the query has no parenthesis,
\* half-width or full-width, and none of the text that stood in parentheses.
C17_AsStated ==
    (Normalized /\ IsField(T_WeiZhi)) =>
        /\ ~HasParen(run.geoName)
        /\ ~Includes(run.geoName, S_JiangSu)
        /\ ~Includes(run.geoName, S_GuDu)

\* a base string that is one parenthesis pair and what it holds, with no
\* modern name in it
OnlyParenthetical(t) ==
    /\ Len(t) >= 2
    /\ t[1] \in {65288, 40}
    /\ t[Len(t)] \in {65289, 41}
    /\ \A i \in 2..(Len(t) - 1) : t[i] \notin {65288, 40, 65289, 41}
    /\ ~\E i \in 1..(Len(t) - 2) : t[i] = 20170

\* C18: when nothing is left of the base string after the extraction and the
\* stripping, the query is the name of the record; so the query of a record
\* with a name that is not empty is not empty.
C18_FallsBackToName ==
    Normalized =>
        /\ OnlyParenthetical(BaseString) => run.geoName = run.locs[1].name
        /\ run.locs[1].name # <<>> => run.geoName # <<>>

C18_Witness ==
    /\ Normalized
    /\ IsField(T_WeiZhi)
    /\ OnlyParenthetical(FieldValue(T_WeiZhi))
    /\ run.locs[1].name = S_ChangAn
    /\ run.geoName = S_ChangAn

\* ---- profile and timeline blocks ----------------------------------------
ProfileSection == SectionLines(InputLines, ProfilePattern)

\* the value of a line "- **key**<colon>value", the colon being one of colons
ValueAfter(line, key, colons) ==
    IF \E c \in colons : StartsWith(line, <<45, 32>> \o T_Stars \o key \o T_Stars \o <<c>>)
    THEN <<Unpadded(Drop(line, Len(key) + 7))>>
    ELSE <<>>

\* the value of the last line of lines that is a field line of one of keys
LastValue(lines, keys, colons) ==
    LET hits == {i \in 1..Len(lines) :
                    \E k \in keys : Truthy(ValueAfter(lines[i], k, colons))}
    IN  IF hits = {} THEN <<>>
        ELSE LET i == CHOOSE x \in hits : \A y \in hits : y <= x
                 k == CHOOSE x \in keys : Truthy(ValueAfter(lines[i], x, colons))
             IN  ValueAfter(lines[i], k, colons)

FieldOf(person, f) == IF f \in DOMAIN person THEN person[f] ELSE <<>>

\* C21: the era of the person is the trimmed value of the last line of the
\* profile section whose key is "时代" or "朝代", whichever of the two it is.
C21_AsStated ==
    (ppc = "done" /\ LastValue(ProfileSection, {T_ShiDai, T_ChaoDai}, {65306}) # <<>>) =>
        FieldOf(pResult.person, "era")
            = LastValue(ProfileSection, {T_ShiDai, T_ChaoDai}, {65306})

\* C22: a field line gives its trimmed value whether its key is followed by
\* an ASCII colon or by a full-width colon: the name of the person is the
\* value of the last "姓名" line of the profile section, with either colon.
C22_AsStated ==
    (ppc = "done" /\ LastValue(ProfileSection, {T_XingMing}, {58, 65306}) # <<>>) =>
        FieldOf(pResult.person, "name")
            = LastValue(ProfileSection, {T_XingMing}, {58, 65306})

IsHeading(line) == StartsWith(line, <<35>>)
IsOverview(line) == StartsWith(line, <<35, 35, 35, 32>> \o T_ShengPingGaiShu)

\* line j of lines stands under the overview heading: the nearest heading
\* line above it is the overview heading
UnderOverview(lines, j) ==
    /\ ~IsHeading(lines[j])
    /\ ~Blank(lines[j])
    /\ \E o \in 1..(j - 1) :
          /\ IsOverview(lines[o])
          /\ \A m \in (o + 1)..(j - 1) : ~IsHeading(lines[m])

RECURSIVE IntroOf(_, _)
IntroOf(lines, j) ==
    IF j > Len(lines) THEN <<>>
    ELSE (IF UnderOverview(lines, j) THEN Unpadded(lines[j]) \o <<32>> ELSE <<>>)
         \o IntroOf(lines, j + 1)

\* C23: the intro is made of the non-blank lines between the overview
\* heading of the profile section and the next heading line, and of no line
\* after that heading.
C23_AsStated ==
    (ppc = "done" /\ ProfileSection # <<>>) =>
        pResult.intro = IntroOf(ProfileSection, 1)

TimelineSection == SectionLines(InputLines, TimelinePattern)

\* the stretches of a row between two bars, or an end of the row and a bar
CellsOf(v) ==
    LET cuts == {0, Len(v) + 1} \cup {i \in 1..Len(v) : v[i] = 124}
    IN  [k \in 1..(Cardinality(cuts) - 1) |->
            SubSeq(v, Kth(cuts, k) + 1, Kth(cuts, k + 1) - 1)]

\* the non-blank cells of a row, without the blanks around them
NonBlankCells(v) ==
    LET cs == CellsOf(v)
        keep == SelectSeq([k \in 1..Len(cs) |-> k], LAMBDA k : ~Blank(cs[k]))
    IN  [n \in 1..Len(keep) |-> Unpadded(cs[keep[n]])]

IsRow(line) == ~Blank(line) /\ Unpadded(line)[1] = 124
IsHeaderRow(line) == IsRow(line) /\ Includes(line, T_NianFen)
\* a row whose cells hold only dashes and colons
IsSeparatorRow(line) ==
    /\ IsRow(line)
    /\ \A i \in 1..Len(line) : line[i] \in {124, 45, 58, 32}

\* the rows of lines that the table keeps: after the first header row, no
\* separator row, with three non-blank cells or more
DataRows(lines) ==
    LET hs == {i \in 1..Len(lines) : IsHeaderRow(lines[i])}
    IN  IF hs = {} THEN <<>>
        ELSE LET h == CHOOSE i \in hs : \A i2 \in hs : i <= i2
             IN  SelectSeq(SubSeq(lines, h + 1, Len(lines)),
                           LAMBDA l : /\ IsRow(l)
                                      /\ ~IsSeparatorRow(l)
                                      /\ Len(NonBlankCells(l)) >= 3)

\* C24: the timeline holds, in order and with duplicates, one entry (year,
\* age, event) for each row after the header row that is no separator row
\* and has three non-blank cells or more, whatever the text of its cells.
C24_AsStated ==
    (ppc = "done" /\ TimelineSection # <<>>) =>
        /\ Len(pResult.timeline) = Len(DataRows(TimelineSection))
        /\ \A n \in 1..Len(pResult.timeline) :
              LET c == NonBlankCells(DataRows(TimelineSection)[n])
              IN  pResult.timeline[n] = [year |-> c[1], age |-> c[2], event |-> c[3]]

\* ---- pacing, overlapping calls, overlapping runs ------------------------
\* a call of the loop sends a request right after a call that had sent one
NextRequestSent ==
    /\ hpc = "geocode"
    /\ gc.pc = "returned"
    /\ gc.reqs = 1
    /\ gc'.pc = "fetching"

\* C25: within one run, two consecutive requests to the provider are at least
\* the cooldown apart, also when the earlier one failed or found nothing and
\* the retry with the bare name or the lookup of the next record follows.
\* The only time a call lets pass after its request is the timer of line 44,
\* measured by sinceStore; the latency of a request has no lower bound.
C25_AsStated ==
    [][NextRequestSent => gc.sinceStore >= COOLDOWN_MS]_vars

\* C26: whatever the interleaving of overlapping geocodeCity calls, an entry
\* of the cache keeps its value for ever: no later write changes it, also
\* when the provider answers two requests for one query differently.
C26_AsStated ==
    [][\A name \in DOMAIN GEOCODE_CACHE :
          /\ name \in DOMAIN GEOCODE_CACHE'
          /\ GEOCODE_CACHE'[name] = GEOCODE_CACHE[name]]_vars

\* C27 as first stated: a request made while a run is in flight starts a run
\* of its own.
C27_AsStated ==
    (isLoading /\ UserMessages < MaxRuns) => ENABLED HG_Start

\* C27: a request made while a run is in flight starts no run: it is ignored,
\* no message is appended and the run in flight keeps its locals; a request
\* made when no run is in flight starts a fresh run.
C27_BusyRequestIgnored ==
    /\ [](isLoading => ~ENABLED HG_Start)
    /\ []((~isLoading /\ UserMessages < MaxRuns) => ENABLED HG_Start)
    /\ [][isLoading => (UserMessages' = UserMessages /\ run'.before = run.before)]_vars

C27_Witness ==
    /\ isLoading
    /\ UserMessages = 2
    /\ hpc = "geocode"
    /\ gc.pc = "fetching"
    /\ run.before.doc # <<>>

\* ---- extractSection, the location scan ----------------------------------
LocationSection == SectionLines(InputLines, LocationPattern)

\* C28: the content of a section is the lines from its first "##" header up
\* to the next "##" header of another section, or to the end of the text (the
\* matching headers themselves left out).  No line before the first header
\* and no line after that next header is in it or in the records made of it,
\* also when a later "##" header matches again; a "###" header ends nothing.
C28_SectionIsFirstStretch ==
    /\ ppc = "loc" => pLines = LocationSection
    /\ ppc \in {"timeline", "done"} =>
          pResult.locations =
              (IF Join(LocationSection, <<10>>) = <<>> THEN <<>>
               ELSE LocFlush(LocLoop(NoLocState, LocationSection, 1)))

\* a section left at "## x" and a later header that matches again
C28_Witness ==
    /\ ppc = "done"
    /\ InputLines = <<L_H2Loc, L_H2Other, L_H2Loc, L_H3ChangAn>>
    /\ pResult.locations = <<>>

LocationKeys ==
    {T_GongYuanJiNian, T_ShiJian, T_ShiDuan, T_ShiJi, T_JingGuo, T_ShiJianEvt,
     T_YiYi, T_YingXiang, T_MingPianMingJu, T_DaiBiaoMingJu, T_MingJu,
     T_WeiZhi, T_DiDian}

IsLocationField(line) ==
    \E k \in LocationKeys : Truthy(ValueAfter(line, k, {65306}))

\* the loop reads line pLines[pIdx]
LocLineRead == ppc = "loc" /\ pIdx' = pIdx + 1

\* C29: in the location scan a line that is no "###" header changes at most
\* the open record: the records already appended stay as they are and in
\* place, no record is created (so a field line before the first header is
\* ignored) and the open record keeps its name and type; a line that is no
\* field line of the location keys changes nothing at all.  The records
\* appended so far are also the first records of the result.
C29_FieldsTouchOpenRecordOnly ==
    [][/\ LocLineRead =>
            /\ Take(pSt'.out, Len(pSt.out)) = pSt.out
            /\ headerMatch(pLines[pIdx]) = <<>> =>
                  /\ pSt'.out = pSt.out
                  /\ Len(pSt'.cur) = Len(pSt.cur)
                  /\ pSt.cur # <<>> =>
                        /\ pSt'.cur[1].name = pSt.cur[1].name
                        /\ pSt'.cur[1].type = pSt.cur[1].type
            /\ (headerMatch(pLines[pIdx]) = <<>> /\ ~IsLocationField(pLines[pIdx])) =>
                  pSt' = pSt
       /\ (ppc = "loc" /\ ppc' = "timeline") =>
            Take(pResult'.locations, Len(pSt.out)) = pSt.out]_vars

\* a field line read after two headers: it is in the open record only
C29_Witness ==
    /\ ppc = "loc"
    /\ InputLines = <<L_H2Loc, L_H3ChangAn, L_H3Birth, L_LocDesc>>
    /\ pIdx = 4
    /\ Len(pSt.out) = 1
    /\ pSt.out[1].locationDesc = <<>>
    /\ pSt.cur # <<>>
    /\ pSt.cur[1].locationDesc # <<>>

\* ---- termination --------------------------------------------------------
\* C30: every run that has started ends, and when it has ended, by an early
\* exit, by the end of the loop or by the catch block, the loading flag is
\* false, so that the next request starts a run.
C30_RunsEndAndUnlock ==
    /\ (hpc # "idle") ~> (hpc = "idle" /\ ~isLoading)
    /\ [](isLoading <=> hpc # "idle")

\* a run ended in the catch block and the next request was accepted
C30_Witness ==
    /\ Len(messages) >= 4
    /\ messages[3].kind = "error"
    /\ messages[4].kind = "user"
    /\ isLoading

\* ---- task polling -------------------------------------------------------
\* the messages that tell the end of task t
TerminalMessages(t) ==
    SelectSeq(chat, LAMBDA m : m.task = t /\ m.kind \in {"conclusion", "failed"})

\* C31: the end of a task is rendered at most once, whatever callbacks of
\* its interval were suspended when the first of them saw the terminal
\* status and cleared the interval.
C31_AsStated ==
    \A t \in TaskIds : Len(TerminalMessages(t)) <= 1

\* callback c runs its last part in this step
Finishing(c) == c \in calls /\ c.pc = "json" /\ c \notin calls'

\* C32: at most one interval is set at a time; a callback of an earlier task
\* that resumes after pollTask has set the interval of a newer task does not
\* clear that interval, and one that resumes after a newer request has begun
\* appends no message and no detail line.
C32_AsStated ==
    /\ [](Cardinality(intervals) <= 1)
    /\ [][\A c \in calls :
             /\ (Finishing(c) /\ timerRef # c.task) => intervals' = intervals
             /\ (Finishing(c) /\ c.task < asked) =>
                   (chat' = chat /\ detailLines' = detailLines)]_vars
====
